---- MODULE Spec2Model ----
(***************************************************************************)
(* Model of vmesteTrenimBot.                                               *)
(*                                                                         *)
(* Part 1: the event-application lifecycle of the backend                  *)
(*   (backend/src/events/router.py, repository.py, models.py).             *)
(*   Every HTTP request runs in its own AsyncSession: it reads the         *)
(*   committed rows, and its INSERT/UPDATE becomes visible at commit.      *)
(*   SpecLifecycle handles one request at a time; SpecLifecycleConc lets   *)
(*   the read phase and the commit of different requests interleave.       *)
(*                                                                         *)
(* Part 2: the conversational flows of the bot (bot/handlers/*.py, utils.py,*)
(*   bot.py).  SpecBot handles one update at a time; SpecBotConc runs the  *)
(*   handlers of different updates on worker threads.                      *)
(***************************************************************************)
EXTENDS Integers, Sequences, FiniteSets, TLC

\* ------------------------------------------------------------------ bounds
MaxUsers == 2          \* rows of table users: ids 1..MaxUsers
MaxApplications == 2   \* rows of table event_applications
MaxClock == 3          \* readings of datetime.now(UTC) taken by reviews
MaxInflight == 2       \* backend requests between their read and their commit
MaxWeights == 2        \* rows of table weights
MaxBroadcasts == 1     \* rows of table broadcasts
MaxTasks == 2          \* worker threads running handlers at the same time
MaxUpdates == 7        \* updates the bot receives
MaxEvents == 1         \* rows of table events the bot creates
MaxEventUpdates == 9   \* updates the bot receives in the Event Creation flow
MaxRecipients == 3     \* rows of table users a broadcast is sent to
MaxPages == 2          \* full pages of table users when a broadcast is followed step by step
MaxReviewUpdates == 3  \* approve and reject buttons pressed

Users == 1..MaxUsers
\* table events holds one row: no request reads or writes the rows of two events
Events == {1}
\* ids a request may carry; 0 is an id no row has
UserIds == {0} \cup Users
EventIds == {0} \cup Events

\* Event.creator_id: every event of the model was created by user 1
creator_id == [e \in Events |-> 1]

Pairs == Events \X Users

VARIABLES
    applications,   \* table event_applications: Seq of rows, id = index
    participants,   \* table event_participants: number of rows per (event_id, user_id)
    now,            \* next reading of datetime.now(UTC)
    response,       \* the HTTP response of the request handled by the last step
    inflight,       \* requests that have read and not yet committed
    storage,        \* StateMemoryStorage: the session of the (chat, user) key
    profile,        \* table users: the row of the Telegram user
    weights,        \* table weights: Seq of rows
    broadcasts,     \* table broadcasts: Seq of rows
    event_rows,     \* table events: Seq of the rows the bot created
    outbox,         \* the last handler run: users it read, messages it sent them, its report
    handled,        \* the update handled by the last step, its handler and reply
    tasks,          \* handlers handed to worker threads and not yet finished
    last_update_id, \* TeleBot.last_update_id: the number of updates received
    is_admin,       \* column users.is_admin of the Telegram user
    sending         \* _send_broadcast_async: its position and local variables

lifecycleVars == <<applications, participants, now, response, inflight>>
botVars == <<storage, profile, weights, broadcasts, event_rows, outbox, handled, tasks,
            last_update_id, is_admin, sending>>
vars == <<applications, participants, now, response, inflight,
          storage, profile, weights, broadcasts, event_rows, outbox, handled, tasks,
          last_update_id, is_admin, sending>>

\* reviewed_at IS NULL
NULL == 0

ApplicationIds == 0..MaxApplications

\* -------------------------------------------------------------- repository

\* ids of the application rows of a pair, in id order
ApplicationsOf(apps, e, u) ==
    {i \in DOMAIN apps : apps[i].event_id = e /\ apps[i].user_id = u}

\* Result.scalar_one_or_none(): "none", "one", or MultipleResultsFound
scalar_one_or_none(n) ==
    IF n = 0 THEN "none" ELSE IF n = 1 THEN "one" ELSE "MultipleResultsFound"

\* EventRepository.get_participant
get_participant(parts, e, u) == scalar_one_or_none(parts[<<e, u>>])

\* EventRepository.get_application
get_application(apps, e, u) == scalar_one_or_none(Cardinality(ApplicationsOf(apps, e, u)))

\* create_application with the lookup narrowed to approved applications
create_application_check_approved_only(apps, e, u) ==
    IF \E i \in ApplicationsOf(apps, e, u) : apps[i].status = "approved"
    THEN "ValueError_exists"
    ELSE IF creator_id[e] = u THEN "ValueError_creator"
    ELSE "insert"

\* create_application without the comparison of creator_id and user_id
create_application_check_no_creator_check(apps, e, u) ==
    LET existing == get_application(apps, e, u) IN
    IF existing = "MultipleResultsFound" THEN "MultipleResultsFound"
    ELSE IF existing = "one" THEN "ValueError_exists"
    ELSE "insert"

\* EventRepository.create_application up to the INSERT: what the call decides
\* from the rows it reads
create_application_check(apps, e, u) ==
    LET existing == get_application(apps, e, u) IN
    IF existing = "MultipleResultsFound" THEN "MultipleResultsFound"
    ELSE IF existing = "one" THEN "ValueError_exists"
    ELSE IF creator_id[e] = u THEN "ValueError_creator"
    ELSE "insert"

\* the row create_application adds
NewApplication(e, u) ==
    [event_id |-> e, user_id |-> u, status |-> "pending", reviewed_at |-> NULL]

\* add_participant without the lookup of an existing row
add_participant_check_no_lookup(parts, e, u) == "insert"

\* EventRepository.add_participant up to the INSERT
add_participant_check(parts, e, u) ==
    LET existing == get_participant(parts, e, u) IN
    IF existing = "MultipleResultsFound" THEN "MultipleResultsFound"
    ELSE IF existing = "one" THEN "already"
    ELSE "insert"

\* update_application_status without the lookup of an existing participant
update_application_status_check_no_lookup(parts, app, status) ==
    IF status \notin {"approved", "rejected"} THEN "ValueError_status"
    ELSE IF status = "approved" THEN "update_and_insert"
    ELSE "update"

\* EventRepository.update_application_status up to the commit: the status
\* check and, on approval, whether a participant row is to be added
update_application_status_check(parts, app, status) ==
    IF status \notin {"approved", "rejected"} THEN "ValueError_status"
    ELSE IF status = "approved"
    THEN LET existing == get_participant(parts, app.event_id, app.user_id) IN
         IF existing = "MultipleResultsFound" THEN "MultipleResultsFound"
         ELSE IF existing = "none" THEN "update_and_insert"
         ELSE "update"
    ELSE "update"

\* the row after application.status = status alone
Reviewed_status_only(app, status, t) ==
    [app EXCEPT !.status = status]

\* the row after application.status = status; application.reviewed_at = now
Reviewed(app, status, t) ==
    [app EXCEPT !.status = status, !.reviewed_at = t]

\* update_application_status with a commit after the status and another after
\* the participant
update_application_status_transactions_two_commits(c) ==
    IF c = "update_and_insert" THEN << <<"status">>, <<"participant">> >>
    ELSE << <<"status">> >>

\* the writes of update_application_status, grouped by the session.commit()
\* that persists them: the status and the participant row share one commit
update_application_status_transactions(c) ==
    IF c = "update_and_insert" THEN << <<"status", "participant">> >>
    ELSE << <<"status">> >>

AddRow(parts, e, u) == [parts EXCEPT ![<<e, u>>] = @ + 1]
DeleteRow(parts, e, u) == [parts EXCEPT ![<<e, u>>] = @ - 1]

\* the writes of the first n transactions of txs, in program order
RECURSIVE committed_writes(_, _)
committed_writes(txs, n) ==
    IF n = 0 THEN <<>> ELSE committed_writes(txs, n - 1) \o txs[n]

\* the tables after the writes ws of a review of application id
RECURSIVE persist(_, _, _, _, _)
persist(tables, ws, id, status, t) ==
    IF ws = <<>> THEN tables
    ELSE LET app == tables.applications[id]
             next == IF Head(ws) = "status"
                     THEN [tables EXCEPT !.applications[id] = Reviewed(app, status, t)]
                     ELSE [tables EXCEPT !.participants = AddRow(@, app.event_id, app.user_id)]
         IN  persist(next, Tail(ws), id, status, t)

\* ------------------------------------------------------------------ router

\* The request handled by a step and its response: the operation and its path
\* and body parameters, the HTTP status code, and the branch of the repository
\* call that produced it.
Response(op, e, u, id, status, code, detail) ==
    [op |-> op, event_id |-> e, user_id |-> u, application_id |-> id,
     status |-> status, status_code |-> code, detail |-> detail]

NoResponse == Response("none", 0, 0, 0, "", 0, "")

InitLifecycle ==
    /\ applications = <<>>
    /\ participants = [p \in Pairs |-> 0]
    /\ now = 1
    /\ response = NoResponse
    /\ inflight = {}

\* POST /events/{event_id}/apply, handled without interleaving
apply_to_event(e, u) ==
    /\ UNCHANGED botVars
    /\ inflight = {}
    /\ IF e \notin Events
       THEN /\ response' = Response("apply", e, u, 0, "", 404, "event not found")
            /\ UNCHANGED <<applications, participants, now, inflight>>
       ELSE IF u \notin Users
       THEN /\ response' = Response("apply", e, u, 0, "", 404, "user not found")
            /\ UNCHANGED <<applications, participants, now, inflight>>
       ELSE LET c == create_application_check(applications, e, u) IN
            IF c = "insert"
            THEN /\ Len(applications) < MaxApplications
                 /\ applications' = Append(applications, NewApplication(e, u))
                 /\ response' = Response("apply", e, u, Len(applications) + 1, "", 201, c)
                 /\ UNCHANGED <<participants, now, inflight>>
            ELSE /\ response' = Response("apply", e, u, 0, "",
                                         IF c = "MultipleResultsFound" THEN 500 ELSE 400, c)
                 /\ UNCHANGED <<applications, participants, now, inflight>>

\* PATCH /events/applications/{application_id}, handled without interleaving
review_application_request(id, status) ==
    /\ inflight = {}
    /\ now < MaxClock
    /\ IF id \notin DOMAIN applications
       THEN /\ response' = Response("review", 0, 0, id, status, 404, "application not found")
            /\ UNCHANGED <<applications, participants, now, inflight>>
       ELSE LET app == applications[id]
                c == update_application_status_check(participants, app, status) IN
            IF c \in {"update", "update_and_insert"}
            THEN /\ applications' = [applications EXCEPT ![id] = Reviewed(app, status, now)]
                 /\ participants' = IF c = "update_and_insert"
                                    THEN AddRow(participants, app.event_id, app.user_id)
                                    ELSE participants
                 /\ now' = now + 1
                 /\ response' = Response("review", app.event_id, app.user_id, id, status, 200, c)
                 /\ UNCHANGED inflight
            ELSE /\ response' = Response("review", app.event_id, app.user_id, id, status,
                                         IF c = "MultipleResultsFound" THEN 500 ELSE 400, c)
                 /\ UNCHANGED <<applications, participants, now, inflight>>

\* PATCH /events/applications/{application_id} sent by a client of the backend
review_application(id, status) ==
    /\ UNCHANGED botVars
    /\ review_application_request(id, status)

\* POST /events/{event_id}/participants/{user_id}, handled without interleaving
add_participant(e, u) ==
    /\ UNCHANGED botVars
    /\ inflight = {}
    /\ IF e \notin Events
       THEN /\ response' = Response("add_participant", e, u, 0, "", 404, "event not found")
            /\ UNCHANGED <<applications, participants, now, inflight>>
       ELSE IF u \notin Users
       THEN /\ response' = Response("add_participant", e, u, 0, "", 404, "user not found")
            /\ UNCHANGED <<applications, participants, now, inflight>>
       ELSE LET c == add_participant_check(participants, e, u) IN
            IF c = "insert"
            THEN /\ participants' = AddRow(participants, e, u)
                 /\ response' = Response("add_participant", e, u, 0, "", 201, c)
                 /\ UNCHANGED <<applications, now, inflight>>
            ELSE /\ response' = Response("add_participant", e, u, 0, "",
                                         IF c = "MultipleResultsFound" THEN 500 ELSE 400, c)
                 /\ UNCHANGED <<applications, participants, now, inflight>>

\* remove_participant that also sets the pair's applications back to pending
remove_participant_reverting(e, u) ==
    /\ UNCHANGED botVars
    /\ inflight = {}
    /\ <<e, u>> \in Pairs
    /\ get_participant(participants, e, u) = "one"
    /\ participants' = DeleteRow(participants, e, u)
    /\ applications' = [i \in DOMAIN applications |->
            IF applications[i].event_id = e /\ applications[i].user_id = u
            THEN [applications[i] EXCEPT !.status = "pending", !.reviewed_at = NULL]
            ELSE applications[i]]
    /\ response' = Response("remove_participant", e, u, 0, "", 204, "one")
    /\ UNCHANGED <<now, inflight>>

\* DELETE /events/{event_id}/participants/{user_id}
remove_participant(e, u) ==
    /\ UNCHANGED botVars
    /\ inflight = {}
    /\ IF <<e, u>> \notin Pairs
       THEN /\ response' = Response("remove_participant", e, u, 0, "", 404, "none")
            /\ UNCHANGED <<applications, participants, now, inflight>>
       ELSE LET existing == get_participant(participants, e, u) IN
            IF existing = "one"
            THEN /\ participants' = DeleteRow(participants, e, u)
                 /\ response' = Response("remove_participant", e, u, 0, "", 204, existing)
                 /\ UNCHANGED <<applications, now, inflight>>
            ELSE /\ response' = Response("remove_participant", e, u, 0, "",
                                         IF existing = "none" THEN 404 ELSE 500, existing)
                 /\ UNCHANGED <<applications, participants, now, inflight>>

ReviewStatuses == {"approved", "rejected", "pending"}

NextLifecycle ==
    \/ \E e \in EventIds, u \in UserIds : apply_to_event(e, u)
    \/ \E id \in ApplicationIds, s \in ReviewStatuses : review_application(id, s)
    \/ \E e \in EventIds, u \in UserIds : add_participant(e, u)
    \/ \E e \in EventIds, u \in UserIds : remove_participant(e, u)

\* PATCH /events/applications/{application_id} where the k-th session.commit()
\* raises: the transactions committed before it stay, the failing one is rolled
\* back when the session is closed, and the client gets a 500
review_application_commit_error(id, status, k) ==
    /\ UNCHANGED botVars
    /\ inflight = {}
    /\ now < MaxClock
    /\ id \in DOMAIN applications
    /\ LET app == applications[id]
           c == update_application_status_check(participants, app, status)
           txs == update_application_status_transactions(c)
       IN  /\ c \in {"update", "update_and_insert"}
           /\ k \in 1..Len(txs)
           /\ LET tables == persist([applications |-> applications, participants |-> participants],
                                    committed_writes(txs, k - 1), id, status, now)
              IN  /\ applications' = tables.applications
                  /\ participants' = tables.participants
           /\ now' = now + 1
           /\ response' = Response("review", app.event_id, app.user_id, id, status, 500, "commit_error")
           /\ UNCHANGED inflight

\* the requests of NextLifecycle and the reviews whose commit the database refuses
NextLifecycleFaults ==
    \/ NextLifecycle
    \/ \E id \in ApplicationIds, s \in ReviewStatuses, k \in 1..2 : review_application_commit_error(id, s, k)

\* ------------------------------------------- interleaved request handling

\* a request that has read the rows and awaits its commit: op, its parameters,
\* the reading of datetime.now(UTC) it took, and what it decided to write
Request(slot, op, e, u, id, status, t, c) ==
    [slot |-> slot, op |-> op, event_id |-> e, user_id |-> u,
     application_id |-> id, status |-> status, reviewed_at |-> t, decided |-> c]

FreeSlots == (1..MaxInflight) \ {r.slot : r \in inflight}

\* the slot a new request takes
NextSlot == CHOOSE s \in FreeSlots : \A x \in FreeSlots : s <= x

\* apply_to_event up to the commit of create_application
apply_to_event_read(e, u) ==
    /\ UNCHANGED botVars
    /\ e \in Events /\ u \in Users
    /\ FreeSlots # {}
    /\ LET c == create_application_check(applications, e, u) IN
       IF c = "insert"
       THEN /\ Len(applications) + Cardinality({r \in inflight : r.op = "apply"}) < MaxApplications
            /\ inflight' = inflight \cup {Request(NextSlot, "apply", e, u, 0, "", NULL, c)}
            /\ UNCHANGED <<applications, participants, now, response>>
       ELSE /\ response' = Response("apply", e, u, 0, "",
                                    IF c = "MultipleResultsFound" THEN 500 ELSE 400, c)
            /\ UNCHANGED <<applications, participants, now, inflight>>

\* add_participant up to the commit of EventRepository.add_participant
add_participant_read(e, u) ==
    /\ UNCHANGED botVars
    /\ e \in Events /\ u \in Users
    /\ FreeSlots # {}
    /\ LET c == add_participant_check(participants, e, u) IN
       IF c = "insert"
       THEN /\ inflight' = inflight \cup {Request(NextSlot, "add_participant", e, u, 0, "", NULL, c)}
            /\ UNCHANGED <<applications, participants, now, response>>
       ELSE /\ response' = Response("add_participant", e, u, 0, "",
                                    IF c = "MultipleResultsFound" THEN 500 ELSE 400, c)
            /\ UNCHANGED <<applications, participants, now, inflight>>

\* review_application up to the commit of update_application_status
review_application_read(id, status) ==
    /\ UNCHANGED botVars
    /\ id \in DOMAIN applications
    /\ FreeSlots # {}
    /\ now < MaxClock
    /\ LET app == applications[id]
           c == update_application_status_check(participants, app, status) IN
       IF c \in {"update", "update_and_insert"}
       THEN /\ inflight' = inflight \cup
                  {Request(NextSlot, "review", app.event_id, app.user_id, id, status, now, c)}
            /\ now' = now + 1
            /\ UNCHANGED <<applications, participants, response>>
       ELSE /\ response' = Response("review", app.event_id, app.user_id, id, status,
                                    IF c = "MultipleResultsFound" THEN 500 ELSE 400, c)
            /\ UNCHANGED <<applications, participants, now, inflight>>

\* session.commit() of a request in flight
commit(r) ==
    /\ UNCHANGED botVars
    /\ r \in inflight
    /\ inflight' = inflight \ {r}
    /\ applications' =
         IF r.op = "apply"
         THEN Append(applications, NewApplication(r.event_id, r.user_id))
         ELSE IF r.op = "review"
         THEN [applications EXCEPT ![r.application_id] = Reviewed(@, r.status, r.reviewed_at)]
         ELSE applications
    /\ participants' =
         IF r.op = "add_participant" \/ r.decided = "update_and_insert"
         THEN AddRow(participants, r.event_id, r.user_id)
         ELSE participants
    /\ response' = Response(r.op, r.event_id, r.user_id,
                            IF r.op = "apply" THEN Len(applications) + 1 ELSE r.application_id,
                            r.status, IF r.op = "review" THEN 200 ELSE 201, r.decided)
    /\ UNCHANGED now

\* remove_participant while no request is in flight
remove_participant_idle(e, u) ==
    /\ e \in Events /\ u \in Users
    /\ remove_participant(e, u)

NextLifecycleConc ==
    \/ \E e \in Events, u \in Users : apply_to_event_read(e, u)
    \/ \E e \in Events, u \in Users : add_participant_read(e, u)
    \/ \E id \in ApplicationIds, s \in {"approved", "rejected"} : review_application_read(id, s)
    \/ \E r \in inflight : commit(r)
    \/ \E e \in Events, u \in Users : remove_participant_idle(e, u)

\* ================================================================== bot
\* Part 2: the conversational flows of the bot (bot/handlers/*.py).  One
\* Telegram user talks to the bot in a private chat.  TeleBot tries the
\* registered handlers in registration order and runs the first whose filters
\* pass.  The api_client calls stand for the backend operation they name: each
\* returns its result or raises.  A handler registered with state=... is tried
\* only in that state, as its registration declares.

\* --------------------------------------------------------- texts of updates
\* A text is the sequence of its characters.
CMD_START == <<"/", "s", "t", "a", "r", "t">>
CMD_REGISTER == <<"/", "r", "e", "g", "i", "s", "t", "e", "r">>
CMD_CANCEL == <<"/", "c", "a", "n", "c", "e", "l">>
\* the reply-keyboard buttons (keyboards/main_menu.py, keyboards/admin_menu.py)
BTN_CREATE_EVENT == <<"S", "o", "z", "d", "a", "t", " ", "t", "r", "e", "n", "i", "r", "o", "v", "k", "u">>
BTN_BROADCAST == <<"R", "a", "s", "s", "y", "l", "k", "a", " ", "v", "s", "e", "m">>
BTN_PERSONAL == <<"L", "i", "c", "h", "n", "o", "e", " ", "s", "o", "o", "b", "s", "h", "c", "h", "e", "n", "i", "e">>
\* free text a user may type
TXT_25 == <<"2", "5">>
TXT_0 == <<"0">>
TXT_BLANK == <<" ">>
TXT_DATE_PAST == <<"1", ".", "1", ".", "2", "0", "2", "0">>
TXT_DATE_FUTURE == <<"1", ".", "1", ".", "2", "9", "9", "9">>
TXT_TITLE == <<"R", "u", "n">>
TXT_DATETIME_PAST == <<"1", ".", "1", ".", "2", "0", "2", "0", " ", "9", ":", "0", "0">>
TXT_DATETIME_FUTURE == <<"1", ".", "1", ".", "2", "9", "9", "9", " ", "9", ":", "0", "0">>
TXT_MINUS_5 == <<"-", "5">>
TXT_FEE_HALF == <<"2", ",", "5">>
TXT_FEE_TINY == <<"0", ".", "0", "0", "4">>
TXT_SKIP == <<"P", "r", "o", "p", "u", "s", "t", "i", "t">>

Texts ==
    {CMD_START, CMD_REGISTER, CMD_CANCEL,
     BTN_CREATE_EVENT, BTN_BROADCAST, BTN_PERSONAL,
     TXT_25, TXT_0, TXT_BLANK, TXT_DATE_PAST, TXT_DATE_FUTURE}

\* callback_data of the inline buttons the handlers send
CB_GENDER_MALE == <<"g", "e", "n", "d", "e", "r", "_", "m", "a", "l", "e">>
CB_SPORT_BEG == <<"s", "p", "o", "r", "t", "_", "B", "e", "g">>
CB_SPORTS_DONE == <<"s", "p", "o", "r", "t", "s", "_", "d", "o", "n", "e">>
CB_WEIGHTS_BACK_MAIN == <<"w", "e", "i", "g", "h", "t", "s", "_", "b", "a", "c", "k", "_", "m", "a", "i", "n">>
CB_WEIGHTS_MENU == <<"w", "e", "i", "g", "h", "t", "s", "_", "m", "e", "n", "u">>
CB_WEIGHTS_ADD == <<"w", "e", "i", "g", "h", "t", "s", "_", "a", "d", "d">>
CB_WEIGHT_EX_NEW == <<"w", "e", "i", "g", "h", "t", "_", "e", "x", "_", "n", "e", "w">>
CB_WEIGHT_EX_IDX_0 == <<"w", "e", "i", "g", "h", "t", "_", "e", "x", "_", "i", "d", "x", "_", "0">>
CB_WEIGHT_EX_IDX_5 == <<"w", "e", "i", "g", "h", "t", "_", "e", "x", "_", "i", "d", "x", "_", "5">>
CB_WEIGHT_DATE_TODAY == <<"w", "e", "i", "g", "h", "t", "_", "d", "a", "t", "e", "_", "t", "o", "d", "a", "y">>
CB_ADM_USER_2_2 == <<"a", "d", "m", "_", "u", "s", "e", "r", "_", "2", "_", "2">>
CB_ADM_USER_CANCEL == <<"a", "d", "m", "_", "u", "s", "e", "r", "_", "c", "a", "n", "c", "e", "l">>
CB_PERSONAL_SEND == <<"p", "e", "r", "s", "o", "n", "a", "l", "_", "s", "e", "n", "d">>
CB_PERSONAL_CANCEL == <<"p", "e", "r", "s", "o", "n", "a", "l", "_", "c", "a", "n", "c", "e", "l">>
CB_BROADCAST_SEND == <<"b", "r", "o", "a", "d", "c", "a", "s", "t", "_", "s", "e", "n", "d">>
CB_BROADCAST_CANCEL == <<"b", "r", "o", "a", "d", "c", "a", "s", "t", "_", "c", "a", "n", "c", "e", "l">>
CB_EVENT_SPORT_BEG == <<"e", "v", "e", "n", "t", "_", "s", "p", "o", "r", "t", "_", "B", "e", "g">>
\* a payload with the prefix of the event sport step that no button carries
CB_EVENT_SPORT_GO == <<"e", "v", "e", "n", "t", "_", "s", "p", "o", "r", "t", "_", "G", "o">>

CallbackData ==
    {CB_GENDER_MALE, CB_SPORT_BEG, CB_SPORTS_DONE,
     CB_WEIGHTS_BACK_MAIN, CB_WEIGHTS_MENU, CB_WEIGHTS_ADD,
     CB_WEIGHT_EX_NEW, CB_WEIGHT_EX_IDX_0, CB_WEIGHT_EX_IDX_5, CB_WEIGHT_DATE_TODAY,
     CB_ADM_USER_2_2, CB_ADM_USER_CANCEL, CB_PERSONAL_SEND, CB_PERSONAL_CANCEL,
     CB_BROADCAST_SEND, CB_BROADCAST_CANCEL}

\* telebot.types.Message (content_type text) and telebot.types.CallbackQuery
Message(text) == [type |-> "message", text |-> text, data |-> <<>>]
CallbackQuery(data) == [type |-> "callback_query", text |-> <<>>, data |-> data]

Messages == {Message(t) : t \in Texts}
CallbackQueries == {CallbackQuery(d) : d \in CallbackData}
Updates == Messages \cup CallbackQueries

\* --------------------------------------------------------------- python str
\* the characters of the texts above, in code point order
Alphabet == <<" ", "+", ",", "-", ".", "/", "0", "1", "2", "3", "4", "5", "6", "7", "8", "9", ":", "A", "B", "C", "D", "E", "F", "G", "H", "I", "J", "K", "L", "M", "N", "O", "P", "Q", "R", "S", "T", "U", "V", "W", "X", "Y", "Z", "_", "a", "b", "c", "d", "e", "f", "g", "h", "i", "j", "k", "l", "m", "n", "o", "p", "q", "r", "s", "t", "u", "v", "w", "x", "y", "z">>

\* ord(c), counted from the first character of Alphabet
OrdTable ==
    [c \in {Alphabet[i] : i \in 1..Len(Alphabet)} |->
        CHOOSE i \in 1..Len(Alphabet) : Alphabet[i] = c]

ord(c) == OrdTable[c]

\* str.isdigit for one character
isdigit(c) == c \in {"0", "1", "2", "3", "4", "5", "6", "7", "8", "9"}

\* str.startswith
startswith(s, p) == Len(s) >= Len(p) /\ SubSeq(s, 1, Len(p)) = p

RECURSIVE lstrip(_)
lstrip(s) == IF s # <<>> /\ Head(s) = " " THEN lstrip(Tail(s)) ELSE s

RECURSIVE rstrip(_)
rstrip(s) == IF s # <<>> /\ s[Len(s)] = " " THEN rstrip(SubSeq(s, 1, Len(s) - 1)) ELSE s

\* str.strip()
strip(s) == rstrip(lstrip(s))

\* str.replace(a, b) for single characters a, b
replace(s, a, b) == [i \in 1..Len(s) |-> IF s[i] = a THEN b ELSE s[i]]

\* str.replace(p, "") for a text that holds p at most once, at its start
replace_prefix(s, p) == IF startswith(s, p) THEN SubSeq(s, Len(p) + 1, Len(s)) ELSE s

\* positions of the separator c in s (str.split)
positions(s, c) == {i \in 1..Len(s) : s[i] = c}

alldigits(s) == s # <<>> /\ \A i \in 1..Len(s) : isdigit(s[i])

RECURSIVE digits_value(_)
digits_value(s) ==
    IF s = <<>> THEN 0
    ELSE 10 * digits_value(SubSeq(s, 1, Len(s) - 1)) + (ord(s[Len(s)]) - ord("0"))

signed(s) == Len(s) > 1 /\ s[1] \in {"+", "-"}
sign(s) == IF s[1] = "-" THEN 0 - 1 ELSE 1

\* int(s): the value, or ValueError
int(s) ==
    LET t == strip(s) IN
    IF alldigits(t) THEN [ok |-> TRUE, value |-> digits_value(t)]
    ELSE IF signed(t) /\ alldigits(Tail(t))
    THEN [ok |-> TRUE, value |-> sign(t) * digits_value(Tail(t))]
    ELSE [ok |-> FALSE, value |-> 0]

\* float(s) for decimal notation: mantissa / 10^scale, or ValueError
float(s) ==
    LET t0 == strip(s)
        t == IF signed(t0) THEN Tail(t0) ELSE t0
        sg == IF signed(t0) THEN sign(t0) ELSE 1
        dots == positions(t, ".")
        err == [ok |-> FALSE, mantissa |-> 0, scale |-> 0]
    IN  IF dots = {}
        THEN IF alldigits(t) THEN [ok |-> TRUE, mantissa |-> sg * digits_value(t), scale |-> 0]
             ELSE err
        ELSE IF Cardinality(dots) = 1
        THEN LET d == CHOOSE i \in dots : TRUE
                 ip == SubSeq(t, 1, d - 1)
                 fp == SubSeq(t, d + 1, Len(t))
             IN  IF /\ ip \o fp # <<>>
                    /\ \A i \in 1..Len(ip \o fp) : isdigit((ip \o fp)[i])
                 THEN [ok |-> TRUE, mantissa |-> sg * digits_value(ip \o fp), scale |-> Len(fp)]
                 ELSE err
        ELSE err

\* str.lower for one character
lower_char(c) ==
    IF ord(c) >= ord("A") /\ ord(c) <= ord("Z") THEN Alphabet[ord(c) + (ord("a") - ord("A"))]
    ELSE c

\* str.lower
lower(s) == [i \in 1..Len(s) |-> lower_char(s[i])]

\* 10 ** n
RECURSIVE pow10(_)
pow10(n) == IF n = 0 THEN 1 ELSE 10 * pow10(n - 1)

isleap(y) == (y % 4 = 0 /\ y % 100 # 0) \/ y % 400 = 0

monthrange(y, m) ==
    IF m = 2 THEN (IF isleap(y) THEN 29 ELSE 28)
    ELSE IF m \in {4, 6, 9, 11} THEN 30 ELSE 31

\* datetime.strptime(s, "%d.%m.%Y").date(): <<year, month, day>>, or ValueError
strptime(s) ==
    LET dots == positions(s, ".")
        err == [ok |-> FALSE, date |-> <<0, 0, 0>>]
    IN  IF Cardinality(dots) # 2 THEN err
        ELSE LET d1 == CHOOSE i \in dots : \A j \in dots : i <= j
                 d2 == CHOOSE i \in dots : \A j \in dots : i >= j
                 dd == SubSeq(s, 1, d1 - 1)
                 mm == SubSeq(s, d1 + 1, d2 - 1)
                 yy == SubSeq(s, d2 + 1, Len(s))
             IN  IF /\ alldigits(dd) /\ Len(dd) <= 2
                    /\ alldigits(mm) /\ Len(mm) <= 2
                    /\ alldigits(yy) /\ Len(yy) = 4
                    /\ digits_value(yy) >= 1
                    /\ digits_value(mm) \in 1..12
                    /\ digits_value(dd) \in 1..monthrange(digits_value(yy), digits_value(mm))
                 THEN [ok |-> TRUE,
                       date |-> <<digits_value(yy), digits_value(mm), digits_value(dd)>>]
                 ELSE err

\* datetime.strptime(s, "%d.%m.%Y %H:%M"): date and <<hour, minute>>, or ValueError
strptime_datetime(s) ==
    LET spaces == positions(s, " ")
        err == [ok |-> FALSE, date |-> <<0, 0, 0>>, time |-> <<0, 0>>]
    IN  IF spaces = {} THEN err
        ELSE LET sp == CHOOSE i \in spaces : \A j \in spaces : i <= j
                 d == strptime(SubSeq(s, 1, sp - 1))
                 t == lstrip(SubSeq(s, sp + 1, Len(s)))
                 colons == positions(t, ":")
             IN  IF ~d.ok \/ Cardinality(colons) # 1 THEN err
                 ELSE LET c == CHOOSE i \in colons : TRUE
                          hh == SubSeq(t, 1, c - 1)
                          mi == SubSeq(t, c + 1, Len(t))
                      IN  IF /\ alldigits(hh) /\ Len(hh) <= 2
                             /\ alldigits(mi) /\ Len(mi) <= 2
                             /\ digits_value(hh) <= 23
                             /\ digits_value(mi) <= 59
                          THEN [ok |-> TRUE, date |-> d.date,
                                time |-> <<digits_value(hh), digits_value(mi)>>]
                          ELSE err

\* the time of day of datetime.now(), as <<hour, minute>>
now_time == <<12, 0>>

\* date.today(), as <<year, month, day>>
today == <<2026, 11, 4>>

\* a > b on dates
date_gt(a, b) ==
    \/ a[1] > b[1]
    \/ a[1] = b[1] /\ a[2] > b[2]
    \/ a[1] = b[1] /\ a[2] = b[2] /\ a[3] > b[3]

\* a < datetime.now() on datetimes
datetime_lt_now(a) ==
    \/ date_gt(today, a.date)
    \/ a.date = today /\ (a.time[1] < now_time[1]
                          \/ (a.time[1] = now_time[1] /\ a.time[2] < now_time[2]))

\* s < t in the order of ORDER BY ... ASC
RECURSIVE str_lt(_, _)
str_lt(s, t) ==
    IF t = <<>> THEN FALSE
    ELSE IF s = <<>> THEN TRUE
    ELSE IF Head(s) = Head(t) THEN str_lt(Tail(s), Tail(t))
    ELSE ord(Head(s)) < ord(Head(t))

\* telebot.util.extract_command: the first word without its "/" (None: <<>>)
extract_command(text) ==
    IF ~startswith(text, <<"/">>) THEN <<>>
    ELSE LET ends == {i \in 1..Len(text) : text[i] \in {" ", "@"}}
             last == IF ends = {} THEN Len(text)
                     ELSE (CHOOSE i \in ends : \A j \in ends : i <= j) - 1
         IN  SubSeq(text, 2, last)

\* ------------------------------------------------- states/ and the storage
WAITING_AGE == "RegistrationStates:waiting_age"
WAITING_GENDER == "RegistrationStates:waiting_gender"
WAITING_CITY == "RegistrationStates:waiting_city"
WAITING_SPORTS == "RegistrationStates:waiting_sports"
WAITING_TITLE == "EventCreationStates:waiting_title"
WAITING_EVENT_DATE == "EventCreationStates:waiting_date"
WAITING_LOCATION == "EventCreationStates:waiting_location"
WAITING_SPORT_TYPE == "EventCreationStates:waiting_sport_type"
WAITING_MAX_PARTICIPANTS == "EventCreationStates:waiting_max_participants"
WAITING_FEE == "EventCreationStates:waiting_fee"
WAITING_NOTE == "EventCreationStates:waiting_note"
WAITING_EXERCISE_CHOICE == "WeightStates:waiting_exercise_choice"
WAITING_EXERCISE_INPUT == "WeightStates:waiting_exercise_input"
WAITING_DATE == "WeightStates:waiting_date"
WAITING_WEIGHT == "WeightStates:waiting_weight"
WAITING_BROADCAST_TEXT == "AdminStates:waiting_broadcast_text"
WAITING_BROADCAST_CONFIRM == "AdminStates:waiting_broadcast_confirm"
WAITING_PERSONAL_SELECT == "AdminStates:waiting_personal_select"
WAITING_PERSONAL_TEXT == "AdminStates:waiting_personal_text"
WAITING_PERSONAL_CONFIRM == "AdminStates:waiting_personal_confirm"

\* the data dict of a new session
EmptyData == [k \in {} |-> 0]

\* StateMemoryStorage without an entry for the (chat, user) key
NoSession == [present |-> FALSE, state |-> "", data |-> EmptyData]

\* data[k] = v
Put(d, k, v) == [x \in DOMAIN d \cup {k} |-> IF x = k THEN v ELSE d[x]]

\* data.get(k, default)
Get(d, k, default) == IF k \in DOMAIN d THEN d[k] ELSE default

\* what bot.retrieve_data hands to the handler: a copy of the session's data
retrieve_data(sess) == IF sess.present THEN sess.data ELSE EmptyData

\* utils.check_state: bot.get_state(...) against the expected state
check_state(sess, expected_state) == sess.present /\ sess.state = expected_state

\* utils.create_state_checker(bot, expected_state)
create_state_checker(message, sess, expected_state) ==
    /\ ~startswith(message.text, <<"/">>)
    /\ message.type = "message"
    /\ check_state(sess, expected_state)

\* utils.create_callback_state_checker(bot, expected_state, data_prefix, allowed_data)
create_callback_state_checker(call, sess, expected_state, data_prefix, allowed_data) ==
    IF call.data \in allowed_data THEN check_state(sess, expected_state)
    ELSE IF ~startswith(call.data, data_prefix) THEN FALSE
    ELSE check_state(sess, expected_state)

\* steps a handler takes on the storage and on the backend, in program order
set_state(state) == [op |-> "set_state", arg |-> state]
save(data) == [op |-> "save", arg |-> data]
delete_state == [op |-> "delete_state", arg |-> 0]
get_or_create_user(fields) == [op |-> "get_or_create_user", arg |-> fields]
update_user(fields) == [op |-> "update_user", arg |-> fields]
create_weight(row) == [op |-> "create_weight", arg |-> row]
create_broadcast(text) == [op |-> "create_broadcast", arg |-> text]
complete_broadcast(total_count, success_count, fail_count) ==
    [op |-> "complete_broadcast",
     arg |-> [total_count |-> total_count, success_count |-> success_count,
              fail_count |-> fail_count]]
get_admin_users_page(users) == [op |-> "get_admin_users", arg |-> users]
send_message(send) == [op |-> "send_message", arg |-> send]
send_statistics(total_count, success_count, fail_count) ==
    [op |-> "send_statistics",
     arg |-> [total_count |-> total_count, success_count |-> success_count,
              fail_count |-> fail_count]]
create_event(payload) == [op |-> "create_event", arg |-> payload]

\* what a handler run did: its steps, the message it sent, and how it ended
Outcome(ops, reply, result) == [ops |-> ops, reply |-> reply, result |-> result]

\* the handler returned without sending anything
Return == Outcome(<<>>, "", "returned")

\* the exception reached safe_handler / safe_callback
Raised == Outcome(<<>>, "error", "raised")

\* users row of the Telegram user (age, gender, city are nullable)
NoUser == [exists |-> FALSE, age |-> NULL, gender |-> "", city |-> <<>>, sports |-> <<>>]
\* a users row built from the columns; its relation user.sports is empty
UserFields(age, gender, city) ==
    [exists |-> TRUE, age |-> age, gender |-> gender, city |-> city, sports |-> <<>>]

\* the body of POST /users/get-or-create and of PATCH /users/{id} as the bot
\* sends it: UserCreate / UserUpdate with age, gender, city and sports
UserCreate(age, gender, city, sports) ==
    [age |-> age, gender |-> gender, city |-> city, sports |-> sports]

\* UserRepository.create_user: model_dump(exclude={"sports"})
UserRepository_create_user(user_data) ==
    UserFields(user_data.age, user_data.gender, user_data.city)

\* UserRepository.update_user: model_dump(exclude_unset=True, exclude={"sports"})
UserRepository_update_user(user, user_data) ==
    [user EXCEPT !.age = user_data.age, !.gender = user_data.gender, !.city = user_data.city]

\* common.get_admin_or_error: the user row if it carries is_admin, else nothing
get_admin_or_error(user_row, flag) == user_row.exists /\ flag

\* an optional value: None is <<>>, the value v is <<v>>
None == <<>>
Some(v) == <<v>>

\* the body of POST /events as api_client.create_event sends it; fee is the
\* float mantissa / 10^scale
EventCreate(title, date, location, sport_type, max_participants, fee, note) ==
    [title |-> title, date |-> date, location |-> location, sport_type |-> sport_type,
     max_participants |-> max_participants, fee |-> fee, note |-> note]

\* column events.fee, Numeric(10, 2): the value in hundredths, rounded to the
\* nearest hundredth (a half away from zero)
Numeric_10_2(f) ==
    IF f.scale <= 2 THEN f.mantissa * pow10(2 - f.scale)
    ELSE LET p == pow10(f.scale - 2)
             a == IF f.mantissa < 0 THEN 0 - f.mantissa ELSE f.mantissa
             q == (a + p \div 2) \div p
         IN  IF f.mantissa < 0 THEN 0 - q ELSE q

\* common.SportType, the sport catalog; table sports is seeded from it
SportType ==
    {<<"F", "u", "t", "b", "o", "l">>, <<"B", "a", "s", "k", "e", "t", "b", "o", "l">>,
     <<"V", "o", "l", "e", "j", "b", "o", "l">>, <<"T", "e", "n", "n", "i", "s">>,
     <<"B", "e", "g">>, <<"J", "o", "g", "a">>, <<"P", "l", "a", "v", "a", "n", "i", "e">>,
     <<"V", "e", "l", "o", "s", "p", "o", "r", "t">>,
     <<"T", "r", "e", "n", "a", "z", "h", "e", "r", "n", "y", "j", " ", "z", "a", "l">>,
     <<"B", "o", "k", "s">>}

\* EventRepository._resolve_sport_id: the sports row with that name, or None
resolve_sport_id(sport_type) ==
    IF sport_type = None THEN None
    ELSE IF sport_type \in SportType THEN Some(sport_type)
    ELSE None

\* EventRepository.create_event: the row of the payload, sport_type replaced
\* by sport_id; fee is kept in hundredths as the column holds it
EventRepository_create_event(event_data) ==
    [title |-> event_data.title, date |-> event_data.date, location |-> event_data.location,
     sport_id |-> resolve_sport_id(event_data.sport_type),
     max_participants |-> event_data.max_participants,
     fee |-> IF event_data.fee = None THEN None ELSE Some(Numeric_10_2(event_data.fee[1])),
     note |-> event_data.note]

\* nothing read from GET /admin/users, nothing sent, nothing reported
NoOutbox == [users |-> <<>>, sends |-> <<>>, report |-> None]

\* BroadcastRepository.create_broadcast: a pending row, counters at their default
BroadcastRepository_create_broadcast(text) ==
    [text |-> text, completed |-> FALSE, total_count |-> 0, success_count |-> 0,
     fail_count |-> 0]

\* BroadcastRepository.complete_broadcast: the counters and status "completed"
BroadcastRepository_complete_broadcast(broadcast, total_count, success_count, fail_count) ==
    [broadcast EXCEPT !.total_count = total_count, !.success_count = success_count,
                      !.fail_count = fail_count, !.completed = TRUE]

\* the state of storage and backend a handler's steps act on
World(s, p, w, b, e) ==
    [storage |-> s, profile |-> p, weights |-> w, broadcasts |-> b, event_rows |-> e,
     outbox |-> NoOutbox]

\* one step of a handler
ApplyOp(st, o) ==
    IF o.op = "set_state"
    THEN [st EXCEPT !.storage =
            IF st.storage.present THEN [st.storage EXCEPT !.state = o.arg]
            ELSE [present |-> TRUE, state |-> o.arg, data |-> EmptyData]]
    ELSE IF o.op = "save"
    THEN [st EXCEPT !.storage =
            IF st.storage.present THEN [st.storage EXCEPT !.data = o.arg] ELSE st.storage]
    ELSE IF o.op = "delete_state"
    THEN [st EXCEPT !.storage = NoSession]
    ELSE IF o.op = "get_or_create_user"
    THEN [st EXCEPT !.profile = IF st.profile.exists THEN st.profile
                                 ELSE UserRepository_create_user(o.arg)]
    ELSE IF o.op = "update_user"
    THEN [st EXCEPT !.profile = UserRepository_update_user(st.profile, o.arg)]
    ELSE IF o.op = "create_weight"
    THEN [st EXCEPT !.weights = Append(st.weights, o.arg)]
    ELSE IF o.op = "create_event"
    THEN [st EXCEPT !.event_rows = Append(st.event_rows, EventRepository_create_event(o.arg))]
    ELSE IF o.op = "create_broadcast"
    THEN [st EXCEPT !.broadcasts = Append(st.broadcasts,
                                          BroadcastRepository_create_broadcast(o.arg))]
    ELSE IF o.op = "get_admin_users"
    THEN [st EXCEPT !.outbox.users = st.outbox.users \o o.arg]
    ELSE IF o.op = "send_message"
    THEN [st EXCEPT !.outbox.sends = Append(st.outbox.sends, o.arg)]
    ELSE IF o.op = "send_statistics"
    THEN [st EXCEPT !.outbox.report = Some(o.arg)]
    ELSE [st EXCEPT !.broadcasts[Len(st.broadcasts)] =
            BroadcastRepository_complete_broadcast(st.broadcasts[Len(st.broadcasts)],
                                                   o.arg.total_count, o.arg.success_count,
                                                   o.arg.fail_count)]

RECURSIVE ApplyOps(_, _)
ApplyOps(st, ops) ==
    IF ops = <<>> THEN st ELSE ApplyOps(ApplyOp(st, Head(ops)), Tail(ops))

\* WeightRepository.list_user_exercises: distinct names in ascending order
RECURSIVE sorted(_)
sorted(names) ==
    IF names = {} THEN <<>>
    ELSE LET least == CHOOSE n \in names : \A x \in names \ {n} : str_lt(n, x)
         IN  <<least>> \o sorted(names \ {least})

list_user_exercises(ws) == sorted({ws[i].exercise : i \in DOMAIN ws})

\* ------------------------------------------------------- handlers/start.py
\* cmd_start
cmd_start(message, api) ==
    IF api # "ok" THEN Outcome(<<>>, "connect_error", "failed")
    ELSE Outcome(<<get_or_create_user(UserCreate(NULL, "", <<>>, <<>>))>>, "hello", "ok")

\* create_event_start of start.py opening the Event Creation flow
create_event_start_opens_flow(message) ==
    Outcome(<<set_state(WAITING_TITLE)>>, "enter_title", "started")

\* create_event_start, the handler of start.py
create_event_start(message) == Outcome(<<>>, "in_development", "ok")

\* ------------------------------------------------ handlers/registration.py
\* cmd_register
cmd_register(message, api, user_row) ==
    IF api # "ok" THEN Raised
    ELSE IF user_row.exists /\ user_row.age # NULL /\ user_row.city # <<>>
    THEN Outcome(<<>>, "already_registered", "refused")
    ELSE Outcome(<<set_state(WAITING_AGE)>>, "ask_age", "started")

\* process_age with the lower limit of the age dropped
age_out_of_range_upper_only(age) == age > 100

\* process_age: age < 10 or age > 100
age_out_of_range(age) == age < 10 \/ age > 100

\* process_age
process_age(message, sess) ==
    LET age == int(message.text) IN
    IF message.text = <<>> THEN Outcome(<<>>, "send_number", "rejected")
    ELSE IF ~age.ok THEN Outcome(<<>>, "age_not_a_number", "rejected")
    ELSE IF age_out_of_range(age.value) THEN Outcome(<<>>, "age_out_of_range", "rejected")
    ELSE Outcome(<<save(Put(retrieve_data(sess), "age", age.value)), set_state(WAITING_GENDER)>>,
                 "ask_gender", "ok")

\* gender_map.get(call.data, "other")
gender_map(data) ==
    IF data = CB_GENDER_MALE THEN "male"
    ELSE IF data = <<"g", "e", "n", "d", "e", "r", "_", "f", "e", "m", "a", "l", "e">> THEN "female"
    ELSE "other"

\* process_gender
process_gender(call, sess) ==
    Outcome(<<save(Put(retrieve_data(sess), "gender", gender_map(call.data))),
              set_state(WAITING_CITY)>>, "ask_city", "ok")

\* process_city
process_city(message, sess) ==
    LET city == strip(message.text) IN
    IF startswith(message.text, <<"/">>) THEN Return
    ELSE IF message.text = <<>> THEN Outcome(<<>>, "send_city", "rejected")
    ELSE IF Len(city) < 2 THEN Outcome(<<>>, "city_too_short", "rejected")
    ELSE Outcome(<<save(Put(retrieve_data(sess), "city", city)), set_state(WAITING_SPORTS)>>,
                 "ask_sports", "ok")

\* list.remove(x)
remove(list, x) ==
    LET i == CHOOSE j \in 1..Len(list) : list[j] = x /\ \A k \in 1..(j - 1) : list[k] # x
    IN  SubSeq(list, 1, i - 1) \o SubSeq(list, i + 1, Len(list))

\* process_sport_selection taking every selection as non-empty
not_sports_never(sports) == FALSE

\* process_sport_selection: `if not sports`
not_sports(sports) == sports = <<>>

\* process_sport_selection
process_sport_selection(call, sess, api, user_row) ==
    LET data == retrieve_data(sess)
        sports == Get(data, "sports", <<>>)
        fields == UserCreate(Get(data, "age", NULL), Get(data, "gender", ""),
                             Get(data, "city", <<>>), sports)
        sport == replace_prefix(call.data, <<"s", "p", "o", "r", "t", "_">>)
    IN  IF call.data = CB_SPORTS_DONE
        THEN IF not_sports(sports) THEN Outcome(<<save(data)>>, "choose_a_sport", "rejected")
             ELSE IF api # "ok" THEN Outcome(<<save(data)>>, "save_error", "finalize_failed")
             ELSE Outcome(<<(IF user_row.exists THEN update_user(fields)
                             ELSE get_or_create_user(fields)),
                            delete_state, save(data)>>, "registration_done", "finalized")
        ELSE IF \E i \in 1..Len(sports) : sports[i] = sport
        THEN Outcome(<<save(Put(data, "sports", remove(sports, sport)))>>, "sport_removed", "ok")
        ELSE Outcome(<<save(Put(data, "sports", Append(sports, sport)))>>, "sport_added", "ok")

\* ----------------------------------------------------- handlers/weights.py
\* weights_back_main
weights_back_main(call) == Outcome(<<delete_state>>, "main_menu", "ok")

\* weights_menu_callback
weights_menu_callback(call) == Outcome(<<delete_state>>, "weights_menu", "ok")

\* start_add_weight / _start_add_weight_async
start_add_weight(call, sess, api, user_row, weights_rows) ==
    LET exercises == list_user_exercises(weights_rows) IN
    IF api = "error" THEN Outcome(<<>>, "connect_error", "refused")
    ELSE IF ~user_row.exists THEN Outcome(<<>>, "user_not_found", "refused")
    ELSE IF api = "error_late" THEN Raised
    ELSE Outcome(<<set_state(IF exercises # <<>> THEN WAITING_EXERCISE_CHOICE
                             ELSE WAITING_EXERCISE_INPUT),
                   save(Put(Put(retrieve_data(sess), "user_id", 1), "exercises", exercises))>>,
                 IF exercises # <<>> THEN "choose_exercise" ELSE "enter_exercise", "started")

\* process_exercise_choice
process_exercise_choice(call, sess) ==
    LET data == retrieve_data(sess)
        idx == int(replace_prefix(call.data, <<"w", "e", "i", "g", "h", "t", "_", "e", "x", "_", "i", "d", "x", "_">>))
        exercises == Get(data, "exercises", <<>>)
    IN  IF call.data = CB_WEIGHT_EX_NEW
        THEN Outcome(<<set_state(WAITING_EXERCISE_INPUT)>>, "enter_exercise", "ok")
        ELSE IF ~idx.ok THEN Outcome(<<>>, "choice_error", "rejected")
        ELSE IF idx.value < 0 \/ idx.value >= Len(exercises)
        THEN Outcome(<<save(data)>>, "exercise_not_found", "rejected")
        ELSE Outcome(<<save(Put(data, "exercise", exercises[idx.value + 1])),
                       set_state(WAITING_DATE)>>, "ask_date", "ok")

\* process_exercise_input
process_exercise_input(message, sess) ==
    IF startswith(message.text, <<"/">>) THEN Return
    ELSE IF message.text = <<>> \/ Len(strip(message.text)) < 2
    THEN Outcome(<<>>, "bad_exercise_name", "rejected")
    ELSE Outcome(<<save(Put(retrieve_data(sess), "exercise", strip(message.text))),
                   set_state(WAITING_DATE)>>, "ask_date", "ok")

\* process_weight_date_today
process_weight_date_today(call, sess) ==
    Outcome(<<save(Put(retrieve_data(sess), "date", today)), set_state(WAITING_WEIGHT)>>,
            "ask_weight", "ok")

\* process_weight_date
process_weight_date(message, sess) ==
    LET date_obj == strptime(strip(message.text)) IN
    IF startswith(message.text, <<"/">>) THEN Return
    ELSE IF message.text = <<>> THEN Outcome(<<>>, "give_date", "rejected")
    ELSE IF ~date_obj.ok THEN Outcome(<<>>, "bad_date_format", "rejected")
    ELSE IF date_gt(date_obj.date, today) THEN Outcome(<<>>, "date_in_future", "rejected")
    ELSE Outcome(<<save(Put(retrieve_data(sess), "date", date_obj.date)),
                   set_state(WAITING_WEIGHT)>>, "ask_weight", "ok")

\* _save_weight_async
save_weight_async(message, sess, api, weight_value) ==
    LET data == retrieve_data(sess) IN
    IF ~({"user_id", "exercise", "date"} \subseteq DOMAIN data) \/ data["exercise"] = <<>>
    THEN Outcome(<<>>, "not_saved", "aborted")
    ELSE IF api # "ok" THEN Outcome(<<>>, "error", "finalize_failed")
    ELSE Outcome(<<create_weight([user_id |-> data["user_id"], exercise |-> data["exercise"],
                                  date |-> data["date"], weight |-> weight_value]),
                   delete_state>>, "record_added", "finalized")

\* process_weight_value
process_weight_value(message, sess, api) ==
    LET weight_value == float(replace(message.text, ",", ".")) IN
    IF startswith(message.text, <<"/">>) THEN Return
    ELSE IF ~weight_value.ok \/ weight_value.mantissa <= 0
    THEN Outcome(<<>>, "bad_weight", "rejected")
    ELSE save_weight_async(message, sess, api,
                           <<weight_value.mantissa, weight_value.scale>>)

\* start_broadcast without the test of admin_user
start_broadcast_unchecked(message, admin_user) ==
    Outcome(<<set_state(WAITING_BROADCAST_TEXT)>>, "enter_broadcast_text", "started")

\* ------------------------------------------------------- handlers/admin.py
\* start_broadcast / _start_broadcast_async; admin_user is what
\* get_admin_or_error returned
start_broadcast(message, admin_user) ==
    IF ~admin_user THEN Outcome(<<>>, "", "refused")
    ELSE Outcome(<<set_state(WAITING_BROADCAST_TEXT)>>, "enter_broadcast_text", "started")

\* start_personal_message / _start_personal_message_async
start_personal_message(message, admin_user) ==
    IF ~admin_user THEN Outcome(<<>>, "", "refused")
    ELSE Outcome(<<set_state(WAITING_PERSONAL_SELECT)>>, "choose_user", "started")

\* process_personal_user_select
process_personal_user_select(call, sess) ==
    LET rest == replace_prefix(call.data, <<"a", "d", "m", "_", "u", "s", "e", "r", "_">>)
        cut == CHOOSE i \in positions(rest, "_") : \A j \in positions(rest, "_") : i <= j
        user_id == int(SubSeq(rest, 1, cut - 1))
        telegram_id == int(SubSeq(rest, cut + 1, Len(rest)))
    IN  IF call.data = CB_ADM_USER_CANCEL
        THEN Outcome(<<delete_state>>, "cancelled", "ok")
        ELSE IF positions(rest, "_") = {} THEN Raised
        ELSE IF ~user_id.ok \/ ~telegram_id.ok THEN Outcome(<<save(retrieve_data(sess))>>, "error", "raised")
        ELSE Outcome(<<save(Put(Put(retrieve_data(sess), "target_user_id", user_id.value),
                                "target_telegram_id", telegram_id.value)),
                       set_state(WAITING_PERSONAL_TEXT)>>, "enter_personal_text", "ok")

\* process_personal_text moving on without storing the text
process_personal_text_unsaved(message, sess) ==
    LET text == strip(message.text) IN
    IF startswith(message.text, <<"/">>) THEN Return
    ELSE IF text = <<>> THEN Outcome(<<>>, "enter_text", "rejected")
    ELSE Outcome(<<set_state(WAITING_PERSONAL_CONFIRM)>>, "preview", "ok")

\* process_personal_text
process_personal_text(message, sess) ==
    LET text == strip(message.text) IN
    IF startswith(message.text, <<"/">>) THEN Return
    ELSE IF text = <<>> THEN Outcome(<<>>, "enter_text", "rejected")
    ELSE Outcome(<<save(Put(retrieve_data(sess), "personal_text", text)),
                   set_state(WAITING_PERSONAL_CONFIRM)>>, "preview", "ok")

\* _send_personal_message_async without the call of get_admin_or_error
process_personal_confirm_unchecked(call, sess, api, admin_user) ==
    LET data == retrieve_data(sess) IN
    IF call.data = CB_PERSONAL_CANCEL THEN Outcome(<<delete_state>>, "cancelled", "ok")
    ELSE IF \/ Get(data, "personal_text", <<>>) = <<>>
            \/ Get(data, "target_telegram_id", 0) = 0
    THEN Outcome(<<>>, "data_not_found", "aborted")
    ELSE IF api # "ok" THEN Outcome(<<delete_state>>, "not_sent", "finalize_failed")
    ELSE Outcome(<<delete_state>>, "sent", "finalized")

\* process_personal_confirm / _send_personal_message_async
process_personal_confirm(call, sess, api, admin_user) ==
    LET data == retrieve_data(sess) IN
    IF call.data = CB_PERSONAL_CANCEL THEN Outcome(<<delete_state>>, "cancelled", "ok")
    ELSE IF ~admin_user THEN Outcome(<<>>, "", "refused")
    ELSE IF \/ Get(data, "personal_text", <<>>) = <<>>
            \/ Get(data, "target_telegram_id", 0) = 0
    THEN Outcome(<<>>, "data_not_found", "aborted")
    ELSE IF api # "ok" THEN Outcome(<<delete_state>>, "not_sent", "finalize_failed")
    ELSE Outcome(<<delete_state>>, "sent", "finalized")

\* process_broadcast_text
process_broadcast_text(message, sess) ==
    LET text == strip(message.text) IN
    IF startswith(message.text, <<"/">>) THEN Return
    ELSE IF text = <<>> THEN Outcome(<<>>, "enter_text", "rejected")
    ELSE Outcome(<<save(Put(retrieve_data(sess), "broadcast_text", text)),
                   set_state(WAITING_BROADCAST_CONFIRM)>>, "preview", "ok")

\* _send_broadcast_async: limit = 100
limit == 100

\* list_users returning the row before offset skip as well
get_admin_users_overlapping(users, skip) ==
    SubSeq(users, IF skip = 0 THEN 1 ELSE skip,
           IF skip + limit < Len(users) THEN skip + limit ELSE Len(users))

\* UserRepository.list_users(skip, limit): offset(skip).limit(limit)
get_admin_users(users, skip) ==
    SubSeq(users, skip + 1, IF skip + limit < Len(users) THEN skip + limit ELSE Len(users))

\* the counters and the steps of _send_broadcast_async before its first page
NoSends == [total_count |-> 0, success_count |-> 0, fail_count |-> 0, ops |-> <<>>]

\* _send_broadcast_async, the body of `for user in users` for one user: failing
\* holds the chats where bot.send_message raises
send_to_user(acc, user, failing) ==
    LET counted == [acc EXCEPT !.total_count = @ + 1] IN
    IF user.telegram_id = NULL THEN [counted EXCEPT !.fail_count = @ + 1]
    ELSE IF user.telegram_id \in failing
    THEN [counted EXCEPT !.fail_count = @ + 1,
                         !.ops = Append(@, send_message([chat_id |-> user.telegram_id,
                                                         delivered |-> FALSE]))]
    ELSE [counted EXCEPT !.success_count = @ + 1,
                         !.ops = Append(@, send_message([chat_id |-> user.telegram_id,
                                                         delivered |-> TRUE]))]

\* `for user in users` leaving the loop at the first send that raises
send_to_users_until_failure(acc, users, failing) ==
    LET bad == {i \in 1..Len(users) : users[i].telegram_id \in failing}
        last == IF bad = {} THEN Len(users) ELSE CHOOSE i \in bad : \A j \in bad : i <= j
        step[i \in 0..Len(users)] ==
            IF i = 0 THEN acc ELSE send_to_user(step[i - 1], users[i], failing)
    IN  step[last]

\* _send_broadcast_async: `for user in users` over one page
send_to_users(acc, users, failing) ==
    LET step[i \in 0..Len(users)] ==
            IF i = 0 THEN acc ELSE send_to_user(step[i - 1], users[i], failing)
    IN  step[Len(users)]

\* _send_broadcast_async: `while True` over the pages of GET /admin/users
RECURSIVE send_to_pages(_, _, _, _)
send_to_pages(acc, table, skip, failing) ==
    LET users == get_admin_users(table, skip) IN
    IF users = <<>> THEN acc
    ELSE send_to_pages(send_to_users([acc EXCEPT !.ops = Append(@, get_admin_users_page(users))],
                                     users, failing),
                       table, skip + limit, failing)

\* _send_broadcast_async is not running
NotSending ==
    [pc |-> "idle", table |-> <<>>, failing |-> {}, skip |-> 0, users |-> <<>>, next |-> 1,
     acc |-> NoSends]

\* process_broadcast_confirm / _send_broadcast_async: table holds the rows of
\* table users, failing the chats where bot.send_message raises
process_broadcast_confirm(call, sess, api, admin_user, table, failing) ==
    LET text == Get(retrieve_data(sess), "broadcast_text", <<>>)
        sent == send_to_pages(NoSends, table, 0, failing)
    IN  IF call.data = CB_BROADCAST_CANCEL THEN Outcome(<<delete_state>>, "cancelled", "ok")
        ELSE IF ~admin_user THEN Outcome(<<>>, "", "refused")
        ELSE IF text = <<>> THEN Outcome(<<>>, "text_not_found", "aborted")
        ELSE IF api = "error" THEN Outcome(<<>>, "error", "finalize_failed")
        ELSE IF api = "error_late"
        THEN Outcome(<<create_broadcast(text)>> \o sent.ops, "error", "finalize_failed")
        ELSE Outcome(<<create_broadcast(text)>> \o sent.ops \o
                     <<complete_broadcast(sent.total_count, sent.success_count, sent.fail_count),
                       delete_state,
                       send_statistics(sent.total_count, sent.success_count, sent.fail_count)>>,
                     "broadcast_done", "finalized")

\* ------------------------------------------------------ handlers/events.py
\* create_event_start / _create_event_start_async, the handler of events.py
events_create_event_start(message, api, user_row) ==
    IF api # "ok" THEN Raised
    ELSE IF ~user_row.exists THEN Outcome(<<>>, "user_not_found", "refused")
    ELSE IF user_row.age = NULL \/ user_row.city = <<>>
    THEN Outcome(<<>>, "fill_profile", "refused")
    ELSE Outcome(<<set_state(WAITING_TITLE)>>, "enter_title", "started")

\* process_event_title moving on to the location step
process_event_title_skipping_date(message, sess) ==
    IF Len(strip(message.text)) < 3 THEN Outcome(<<>>, "title_too_short", "rejected")
    ELSE Outcome(<<save(Put(retrieve_data(sess), "title", strip(message.text))),
                   set_state(WAITING_LOCATION)>>, "ask_date", "ok")

\* process_event_title
process_event_title(message, sess) ==
    IF Len(strip(message.text)) < 3 THEN Outcome(<<>>, "title_too_short", "rejected")
    ELSE Outcome(<<save(Put(retrieve_data(sess), "title", strip(message.text))),
                   set_state(WAITING_EVENT_DATE)>>, "ask_date", "ok")

\* process_event_date
process_event_date(message, sess) ==
    LET date_obj == strptime_datetime(strip(message.text)) IN
    IF message.text = <<>> THEN Outcome(<<>>, "give_date", "rejected")
    ELSE IF ~date_obj.ok THEN Outcome(<<>>, "bad_date_format", "rejected")
    ELSE IF datetime_lt_now(date_obj) THEN Outcome(<<>>, "date_in_past", "rejected")
    ELSE Outcome(<<save(Put(retrieve_data(sess), "date", <<date_obj.date, date_obj.time>>)),
                   set_state(WAITING_LOCATION)>>, "ask_location", "ok")

\* check_waiting_location_with_types, for a text message
check_waiting_location_with_types(message, sess) ==
    /\ ~startswith(message.text, <<"/">>)
    /\ message.type = "message"
    /\ check_state(sess, WAITING_LOCATION)

\* process_event_location, for a text message (latitude and longitude are None)
process_event_location(message, sess) ==
    LET location == strip(message.text) IN
    IF location = <<>> THEN Outcome(<<>>, "give_location", "rejected")
    ELSE Outcome(<<save(Put(Put(Put(retrieve_data(sess), "location", location),
                                "latitude", None), "longitude", None)),
                   set_state(WAITING_SPORT_TYPE)>>, "ask_sport", "ok")

\* process_event_sport_type
process_event_sport_type(call, sess) ==
    LET sport_type == replace_prefix(call.data, <<"e", "v", "e", "n", "t", "_", "s", "p", "o", "r", "t", "_">>) IN
    Outcome(<<save(Put(retrieve_data(sess), "sport_type", sport_type)),
              set_state(WAITING_MAX_PARTICIPANTS)>>, "ask_max_participants", "ok")

\* process_event_max_participants: None if max_participants <= 0 else max_participants
normalize_max_participants(max_participants) ==
    IF max_participants <= 0 THEN None ELSE Some(max_participants)

\* process_event_max_participants
process_event_max_participants(message, sess) ==
    LET max_participants == int(message.text) IN
    IF ~max_participants.ok THEN Outcome(<<>>, "enter_number", "rejected")
    ELSE Outcome(<<save(Put(retrieve_data(sess), "max_participants",
                            normalize_max_participants(max_participants.value))),
                   set_state(WAITING_FEE)>>, "ask_fee", "ok")

\* process_event_fee: None if fee <= 0 else fee
normalize_fee(fee) ==
    IF fee.mantissa <= 0 THEN None ELSE Some([mantissa |-> fee.mantissa, scale |-> fee.scale])

\* process_event_fee
process_event_fee(message, sess) ==
    LET fee == float(replace(message.text, ",", ".")) IN
    IF ~fee.ok THEN Outcome(<<>>, "enter_amount", "rejected")
    ELSE Outcome(<<save(Put(retrieve_data(sess), "fee", normalize_fee(fee))),
                   set_state(WAITING_NOTE)>>, "ask_note", "ok")

\* process_event_note
process_event_note(message, sess, api, user_row) ==
    LET data == retrieve_data(sess)
        note == IF lower(message.text) # lower(TXT_SKIP) THEN Some(strip(message.text)) ELSE None
    IN  IF message.text = <<>> THEN Outcome(<<>>, "give_note", "rejected")
        ELSE IF api = "error" THEN Raised
        ELSE IF ~user_row.exists THEN Outcome(<<delete_state>>, "user_not_found", "aborted")
        ELSE IF api = "error_late" \/ ~({"title", "date"} \subseteq DOMAIN data)
        THEN Outcome(<<>>, "error", "finalize_failed")
        ELSE Outcome(<<create_event(EventCreate(data["title"], data["date"],
                                                Get(data, "location", None),
                                                Get(data, "sport_type", None),
                                                Get(data, "max_participants", None),
                                                Get(data, "fee", None), note)),
                       delete_state>>, "event_created", "finalized")

\* ----------------------------------------------------- handlers/unknown.py
\* cmd_cancel
cmd_cancel(message, sess) ==
    IF sess.present THEN Outcome(<<delete_state>>, "cancelled", "ok")
    ELSE Outcome(<<>>, "nothing_to_cancel", "ok")

\* check_no_state
check_no_state(message, sess) == message.type = "message" /\ ~sess.present

\* handle_unknown_message
handle_unknown_message(message, sess) ==
    IF sess.present THEN Return
    ELSE IF startswith(message.text, <<"/">>) THEN Outcome(<<>>, "unknown_command", "ok")
    ELSE Outcome(<<>>, "not_understood", "ok")

\* ------------------------------------------- handlers/__init__.py: dispatch
\* message handlers in the order register_all_handlers registers them
MessageHandlers ==
    <<"cmd_start", "start.create_event_start", "cmd_register", "process_age", "process_city",
      "events.create_event_start", "process_event_title", "process_event_date",
      "process_event_location", "process_event_max_participants", "process_event_fee",
      "process_event_note", "process_exercise_input",
      "process_weight_date", "process_weight_value", "start_broadcast",
      "start_personal_message", "process_personal_text", "process_broadcast_text",
      "cmd_cancel", "handle_unknown_message">>

\* callback query handlers in the order register_all_handlers registers them
CallbackQueryHandlers ==
    <<"process_gender", "process_sport_selection", "process_event_sport_type",
      "weights_back_main",
      "weights_menu_callback", "start_add_weight", "process_exercise_choice",
      "process_weight_date_today", "process_personal_user_select",
      "process_personal_confirm", "process_broadcast_confirm">>

\* the filters of a message handler (commands=, func=, state=, content_types=)
test_message_handler(h, message, sess) ==
    CASE h = "cmd_start" -> extract_command(message.text) = <<"s", "t", "a", "r", "t">>
      [] h = "start.create_event_start" -> message.text = BTN_CREATE_EVENT
      [] h = "cmd_register" -> extract_command(message.text) = <<"r", "e", "g", "i", "s", "t", "e", "r">>
      [] h = "process_age" -> create_state_checker(message, sess, WAITING_AGE)
      [] h = "process_city" -> create_state_checker(message, sess, WAITING_CITY)
      [] h = "events.create_event_start" -> message.text = BTN_CREATE_EVENT
      [] h = "process_event_title" -> create_state_checker(message, sess, WAITING_TITLE)
      [] h = "process_event_date" -> create_state_checker(message, sess, WAITING_EVENT_DATE)
      [] h = "process_event_location" -> check_waiting_location_with_types(message, sess)
      [] h = "process_event_max_participants" ->
            create_state_checker(message, sess, WAITING_MAX_PARTICIPANTS)
      [] h = "process_event_fee" -> create_state_checker(message, sess, WAITING_FEE)
      [] h = "process_event_note" -> create_state_checker(message, sess, WAITING_NOTE)
      [] h = "process_exercise_input" -> check_state(sess, WAITING_EXERCISE_INPUT)
      [] h = "process_weight_date" -> check_state(sess, WAITING_DATE)
      [] h = "process_weight_value" -> check_state(sess, WAITING_WEIGHT)
      [] h = "start_broadcast" -> message.text = BTN_BROADCAST
      [] h = "start_personal_message" -> message.text = BTN_PERSONAL
      [] h = "process_personal_text" -> check_state(sess, WAITING_PERSONAL_TEXT)
      [] h = "process_broadcast_text" -> check_state(sess, WAITING_BROADCAST_TEXT)
      [] h = "cmd_cancel" -> extract_command(message.text) = <<"c", "a", "n", "c", "e", "l">>
      [] h = "handle_unknown_message" -> check_no_state(message, sess)

\* the filters of a callback query handler (func=, state=)
test_callback_query_handler(h, call, sess) ==
    CASE h = "process_gender" ->
            create_callback_state_checker(call, sess, WAITING_GENDER, <<"g", "e", "n", "d", "e", "r", "_">>, {})
      [] h = "process_sport_selection" ->
            create_callback_state_checker(call, sess, WAITING_SPORTS, <<"s", "p", "o", "r", "t", "_">>,
                                          {CB_SPORTS_DONE})
      [] h = "process_event_sport_type" ->
            create_callback_state_checker(call, sess, WAITING_SPORT_TYPE,
                                          <<"e", "v", "e", "n", "t", "_", "s", "p", "o", "r", "t", "_">>, {})
      [] h = "weights_back_main" -> call.data = CB_WEIGHTS_BACK_MAIN
      [] h = "weights_menu_callback" -> call.data = CB_WEIGHTS_MENU
      [] h = "start_add_weight" -> call.data = CB_WEIGHTS_ADD
      [] h = "process_exercise_choice" ->
            /\ check_state(sess, WAITING_EXERCISE_CHOICE)
            /\ (call.data = CB_WEIGHT_EX_NEW \/ startswith(call.data, <<"w", "e", "i", "g", "h", "t", "_", "e", "x", "_", "i", "d", "x", "_">>))
      [] h = "process_weight_date_today" ->
            check_state(sess, WAITING_DATE) /\ call.data = CB_WEIGHT_DATE_TODAY
      [] h = "process_personal_user_select" ->
            check_state(sess, WAITING_PERSONAL_SELECT) /\ startswith(call.data, <<"a", "d", "m", "_", "u", "s", "e", "r", "_">>)
      [] h = "process_personal_confirm" ->
            /\ check_state(sess, WAITING_PERSONAL_CONFIRM)
            /\ call.data \in {CB_PERSONAL_SEND, CB_PERSONAL_CANCEL}
      [] h = "process_broadcast_confirm" ->
            /\ check_state(sess, WAITING_BROADCAST_CONFIRM)
            /\ call.data \in {CB_BROADCAST_SEND, CB_BROADCAST_CANCEL}

\* the handlers after position i of the list hs, tried in order
RECURSIVE first_passing(_, _, _, _)
first_passing(hs, i, update, sess) ==
    IF i > Len(hs) THEN "none"
    ELSE IF (IF update.type = "message" THEN test_message_handler(hs[i], update, sess)
             ELSE test_callback_query_handler(hs[i], update, sess))
    THEN hs[i]
    ELSE first_passing(hs, i + 1, update, sess)

\* the handler TeleBot runs for an update: the first whose filters pass
first_match(update, sess) ==
    first_passing(IF update.type = "message" THEN MessageHandlers ELSE CallbackQueryHandlers,
                  1, update, sess)

\* handler h is the one TeleBot runs for the update: its filters pass and those
\* of no handler registered before it do
is_first_match(h, update, sess) ==
    /\ IF update.type = "message" THEN test_message_handler(h, update, sess)
       ELSE test_callback_query_handler(h, update, sess)
    /\ first_match(update, sess) = h

\* the handlers register_registration_handlers and register_events_handlers
\* register for the Registration and the Event Creation flow, in their order
EventMessageHandlers ==
    <<"cmd_register", "process_age", "process_city",
      "events.create_event_start", "process_event_title", "process_event_date",
      "process_event_location", "process_event_max_participants", "process_event_fee",
      "process_event_note">>

EventCallbackQueryHandlers ==
    <<"process_gender", "process_sport_selection", "process_event_sport_type">>

\* handler h is the first of registration.py and events.py whose filters pass
is_first_event_match(h, update, sess) ==
    first_passing(IF update.type = "message" THEN EventMessageHandlers
                  ELSE EventCallbackQueryHandlers, 1, update, sess) = h

\* the body of handler h on an update, reading the session sess
run_handler(h, update, sess, api, admin_user, user_row, weights_rows, table, failing) ==
    CASE h = "cmd_start" -> cmd_start(update, api)
      [] h = "start.create_event_start" -> create_event_start(update)
      [] h = "cmd_register" -> cmd_register(update, api, user_row)
      [] h = "process_age" -> process_age(update, sess)
      [] h = "process_city" -> process_city(update, sess)
      [] h = "events.create_event_start" -> events_create_event_start(update, api, user_row)
      [] h = "process_event_title" -> process_event_title(update, sess)
      [] h = "process_event_date" -> process_event_date(update, sess)
      [] h = "process_event_location" -> process_event_location(update, sess)
      [] h = "process_event_sport_type" -> process_event_sport_type(update, sess)
      [] h = "process_event_max_participants" -> process_event_max_participants(update, sess)
      [] h = "process_event_fee" -> process_event_fee(update, sess)
      [] h = "process_event_note" -> process_event_note(update, sess, api, user_row)
      [] h = "process_exercise_input" -> process_exercise_input(update, sess)
      [] h = "process_weight_date" -> process_weight_date(update, sess)
      [] h = "process_weight_value" -> process_weight_value(update, sess, api)
      [] h = "start_broadcast" -> start_broadcast(update, admin_user)
      [] h = "start_personal_message" -> start_personal_message(update, admin_user)
      [] h = "process_personal_text" -> process_personal_text(update, sess)
      [] h = "process_broadcast_text" -> process_broadcast_text(update, sess)
      [] h = "cmd_cancel" -> cmd_cancel(update, sess)
      [] h = "handle_unknown_message" -> handle_unknown_message(update, sess)
      [] h = "process_gender" -> process_gender(update, sess)
      [] h = "process_sport_selection" -> process_sport_selection(update, sess, api, user_row)
      [] h = "weights_back_main" -> weights_back_main(update)
      [] h = "weights_menu_callback" -> weights_menu_callback(update)
      [] h = "start_add_weight" -> start_add_weight(update, sess, api, user_row, weights_rows)
      [] h = "process_exercise_choice" -> process_exercise_choice(update, sess)
      [] h = "process_weight_date_today" -> process_weight_date_today(update, sess)
      [] h = "process_personal_user_select" -> process_personal_user_select(update, sess)
      [] h = "process_personal_confirm" -> process_personal_confirm(update, sess, api, admin_user)
      [] h = "process_broadcast_confirm" ->
            process_broadcast_confirm(update, sess, api, admin_user, table, failing)

Handled(h, update, out) ==
    [handler |-> h, update |-> update, reply |-> out.reply, result |-> out.result]

\* outcomes of the API calls of a handler: all succeed, the first raises, or
\* the last one raises after the earlier ones succeeded
ApiOutcomes == {"ok", "error", "error_late"}

\* the steps of a handler run, applied to storage and backend
Effects(h, update, out) ==
    LET st == ApplyOps(World(storage, profile, weights, broadcasts, event_rows), out.ops) IN
    /\ Len(st.weights) <= MaxWeights
    /\ Len(st.broadcasts) <= MaxBroadcasts
    /\ Len(st.event_rows) <= MaxEvents
    /\ storage' = st.storage
    /\ profile' = st.profile
    /\ weights' = st.weights
    /\ broadcasts' = st.broadcasts
    /\ event_rows' = st.event_rows
    /\ outbox' = st.outbox
    /\ handled' = Handled(h, update, out)

\* TeleBot handles one update from start to end: handler h ran with outcome out
process_new_updates(h, update, out) ==
    /\ tasks = {}
    /\ last_update_id < MaxUpdates
    /\ last_update_id' = last_update_id + 1
    /\ Effects(h, update, out)
    /\ UNCHANGED <<lifecycleVars, tasks, is_admin, sending>>

\* the rows of table users a broadcast may find: users 1..n with their chats
UserTables == {[i \in 1..n |-> [telegram_id |-> i]] : n \in 0..MaxRecipients}

TelegramIds(table) == {table[i].telegram_id : i \in 1..Len(table)}

\* One action per handler: the update is dispatched to it and it runs to its
\* end.  A handler that calls the API takes the outcome of its calls, one that
\* calls get_admin_or_error takes what that call returned.

on_cmd_start(update, api) ==
    /\ is_first_match("cmd_start", update, storage)
    /\ process_new_updates("cmd_start", update, cmd_start(update, api))

on_create_event_start(update) ==
    /\ is_first_match("start.create_event_start", update, storage)
    /\ process_new_updates("start.create_event_start", update, create_event_start(update))

on_cmd_register(update, api) ==
    /\ is_first_match("cmd_register", update, storage)
    /\ process_new_updates("cmd_register", update, cmd_register(update, api, profile))

on_process_age(update) ==
    /\ is_first_match("process_age", update, storage)
    /\ process_new_updates("process_age", update, process_age(update, storage))

on_process_city(update) ==
    /\ is_first_match("process_city", update, storage)
    /\ process_new_updates("process_city", update, process_city(update, storage))

on_process_exercise_input(update) ==
    /\ is_first_match("process_exercise_input", update, storage)
    /\ process_new_updates("process_exercise_input", update, process_exercise_input(update, storage))

on_process_weight_date(update) ==
    /\ is_first_match("process_weight_date", update, storage)
    /\ process_new_updates("process_weight_date", update, process_weight_date(update, storage))

on_process_weight_value(update, api) ==
    /\ is_first_match("process_weight_value", update, storage)
    /\ process_new_updates("process_weight_value", update, process_weight_value(update, storage, api))

on_start_broadcast(update, admin_user) ==
    /\ admin_user = get_admin_or_error(profile, is_admin)
    /\ is_first_match("start_broadcast", update, storage)
    /\ process_new_updates("start_broadcast", update, start_broadcast(update, admin_user))

on_start_personal_message(update, admin_user) ==
    /\ admin_user = get_admin_or_error(profile, is_admin)
    /\ is_first_match("start_personal_message", update, storage)
    /\ process_new_updates("start_personal_message", update, start_personal_message(update, admin_user))

on_process_personal_text(update) ==
    /\ is_first_match("process_personal_text", update, storage)
    /\ process_new_updates("process_personal_text", update, process_personal_text(update, storage))

on_process_broadcast_text(update) ==
    /\ is_first_match("process_broadcast_text", update, storage)
    /\ process_new_updates("process_broadcast_text", update, process_broadcast_text(update, storage))

on_cmd_cancel(update) ==
    /\ is_first_match("cmd_cancel", update, storage)
    /\ process_new_updates("cmd_cancel", update, cmd_cancel(update, storage))

on_handle_unknown_message(update) ==
    /\ is_first_match("handle_unknown_message", update, storage)
    /\ process_new_updates("handle_unknown_message", update, handle_unknown_message(update, storage))

on_process_gender(update) ==
    /\ is_first_match("process_gender", update, storage)
    /\ process_new_updates("process_gender", update, process_gender(update, storage))

on_process_sport_selection(update, api) ==
    /\ is_first_match("process_sport_selection", update, storage)
    /\ process_new_updates("process_sport_selection", update, process_sport_selection(update, storage, api, profile))

on_weights_back_main(update) ==
    /\ is_first_match("weights_back_main", update, storage)
    /\ process_new_updates("weights_back_main", update, weights_back_main(update))

on_weights_menu_callback(update) ==
    /\ is_first_match("weights_menu_callback", update, storage)
    /\ process_new_updates("weights_menu_callback", update, weights_menu_callback(update))

on_start_add_weight(update, api) ==
    /\ is_first_match("start_add_weight", update, storage)
    /\ process_new_updates("start_add_weight", update, start_add_weight(update, storage, api, profile, weights))

on_process_exercise_choice(update) ==
    /\ is_first_match("process_exercise_choice", update, storage)
    /\ process_new_updates("process_exercise_choice", update, process_exercise_choice(update, storage))

on_process_weight_date_today(update) ==
    /\ is_first_match("process_weight_date_today", update, storage)
    /\ process_new_updates("process_weight_date_today", update, process_weight_date_today(update, storage))

on_process_personal_user_select(update) ==
    /\ is_first_match("process_personal_user_select", update, storage)
    /\ process_new_updates("process_personal_user_select", update, process_personal_user_select(update, storage))

on_process_personal_confirm(update, api, admin_user) ==
    /\ admin_user = get_admin_or_error(profile, is_admin)
    /\ is_first_match("process_personal_confirm", update, storage)
    /\ process_new_updates("process_personal_confirm", update, process_personal_confirm(update, storage, api, admin_user))

on_process_broadcast_confirm(update, api, admin_user) ==
    /\ admin_user = get_admin_or_error(profile, is_admin)
    /\ is_first_match("process_broadcast_confirm", update, storage)
    /\ \E table \in UserTables :
         \E failing \in SUBSET TelegramIds(table) :
            process_new_updates("process_broadcast_confirm", update,
                                process_broadcast_confirm(update, storage, api, admin_user,
                                                          table, failing))

NextBot ==
    \/ \E update \in Messages, api \in ApiOutcomes : on_cmd_start(update, api)
    \/ \E update \in Messages : on_create_event_start(update)
    \/ \E update \in Messages, api \in ApiOutcomes : on_cmd_register(update, api)
    \/ \E update \in Messages : on_process_age(update)
    \/ \E update \in Messages : on_process_city(update)
    \/ \E update \in Messages : on_process_exercise_input(update)
    \/ \E update \in Messages : on_process_weight_date(update)
    \/ \E update \in Messages, api \in ApiOutcomes : on_process_weight_value(update, api)
    \/ \E update \in Messages, admin_user \in BOOLEAN : on_start_broadcast(update, admin_user)
    \/ \E update \in Messages, admin_user \in BOOLEAN : on_start_personal_message(update, admin_user)
    \/ \E update \in Messages : on_process_personal_text(update)
    \/ \E update \in Messages : on_process_broadcast_text(update)
    \/ \E update \in Messages : on_cmd_cancel(update)
    \/ \E update \in Messages : on_handle_unknown_message(update)
    \/ \E update \in CallbackQueries : on_process_gender(update)
    \/ \E update \in CallbackQueries, api \in ApiOutcomes : on_process_sport_selection(update, api)
    \/ \E update \in CallbackQueries : on_weights_back_main(update)
    \/ \E update \in CallbackQueries : on_weights_menu_callback(update)
    \/ \E update \in CallbackQueries, api \in ApiOutcomes : on_start_add_weight(update, api)
    \/ \E update \in CallbackQueries : on_process_exercise_choice(update)
    \/ \E update \in CallbackQueries : on_process_weight_date_today(update)
    \/ \E update \in CallbackQueries : on_process_personal_user_select(update)
    \/ \E update \in CallbackQueries, api \in ApiOutcomes, admin_user \in BOOLEAN : on_process_personal_confirm(update, api, admin_user)
    \/ \E update \in CallbackQueries, api \in ApiOutcomes, admin_user \in BOOLEAN : on_process_broadcast_confirm(update, api, admin_user)

\* ----------------------------------------------- threaded handler execution
\* TeleBot(threaded=True): the polling thread tests the filters and hands the
\* handler to a worker thread; handlers of different updates run concurrently.

\* a handler handed to a worker: "queued", or "running" with the copy of the
\* session it has read
Task(slot, h, update, phase, snapshot) ==
    [slot |-> slot, handler |-> h, update |-> update, phase |-> phase, snapshot |-> snapshot]

FreeWorkers == (1..MaxTasks) \ {t.slot : t \in tasks}

\* ------------------------- the Registration and Event Creation flows by themselves
\* The handlers of handlers/registration.py and handlers/events.py as
\* register_registration_handlers and register_events_handlers register them,
\* without the handlers of the other modules.

\* TeleBot handles one update of the Event Creation flow from start to end
process_event_updates(h, update, out) ==
    /\ tasks = {}
    /\ last_update_id < MaxEventUpdates
    /\ last_update_id' = last_update_id + 1
    /\ Effects(h, update, out)
    /\ UNCHANGED <<lifecycleVars, tasks, is_admin, sending>>

on_events_create_event_start(update, api) ==
    /\ is_first_event_match("events.create_event_start", update, storage)
    /\ process_event_updates("events.create_event_start", update,
                             events_create_event_start(update, api, profile))

on_process_event_title(update) ==
    /\ is_first_event_match("process_event_title", update, storage)
    /\ process_event_updates("process_event_title", update, process_event_title(update, storage))

on_process_event_date(update) ==
    /\ is_first_event_match("process_event_date", update, storage)
    /\ process_event_updates("process_event_date", update, process_event_date(update, storage))

on_process_event_location(update) ==
    /\ is_first_event_match("process_event_location", update, storage)
    /\ process_event_updates("process_event_location", update,
                             process_event_location(update, storage))

on_process_event_sport_type(update) ==
    /\ is_first_event_match("process_event_sport_type", update, storage)
    /\ process_event_updates("process_event_sport_type", update,
                             process_event_sport_type(update, storage))

on_process_event_max_participants(update) ==
    /\ is_first_event_match("process_event_max_participants", update, storage)
    /\ process_event_updates("process_event_max_participants", update,
                             process_event_max_participants(update, storage))

on_process_event_fee(update) ==
    /\ is_first_event_match("process_event_fee", update, storage)
    /\ process_event_updates("process_event_fee", update, process_event_fee(update, storage))

on_process_event_note(update, api) ==
    /\ is_first_event_match("process_event_note", update, storage)
    /\ process_event_updates("process_event_note", update,
                             process_event_note(update, storage, api, profile))

on_flow_cmd_register(update, api) ==
    /\ is_first_event_match("cmd_register", update, storage)
    /\ process_event_updates("cmd_register", update, cmd_register(update, api, profile))

on_flow_process_age(update) ==
    /\ is_first_event_match("process_age", update, storage)
    /\ process_event_updates("process_age", update, process_age(update, storage))

on_flow_process_gender(update) ==
    /\ is_first_event_match("process_gender", update, storage)
    /\ process_event_updates("process_gender", update, process_gender(update, storage))

on_flow_process_city(update) ==
    /\ is_first_event_match("process_city", update, storage)
    /\ process_event_updates("process_city", update, process_city(update, storage))

on_flow_process_sport_selection(update, api) ==
    /\ is_first_event_match("process_sport_selection", update, storage)
    /\ process_event_updates("process_sport_selection", update,
                             process_sport_selection(update, storage, api, profile))

\* what the user sends during the two flows
EventTexts ==
    {CMD_REGISTER, BTN_CREATE_EVENT, TXT_TITLE, TXT_DATETIME_FUTURE, TXT_25, TXT_0,
     TXT_MINUS_5, TXT_FEE_TINY, TXT_BLANK}

EventMessages == {Message(t) : t \in EventTexts}

EventCallbackQueries ==
    {CallbackQuery(d) : d \in {CB_GENDER_MALE, CB_SPORT_BEG, CB_SPORTS_DONE,
                                CB_EVENT_SPORT_BEG, CB_EVENT_SPORT_GO}}

NextEventCreation ==
    \/ \E update \in EventMessages, api \in ApiOutcomes : on_flow_cmd_register(update, api)
    \/ \E update \in EventMessages : on_flow_process_age(update)
    \/ \E update \in EventCallbackQueries : on_flow_process_gender(update)
    \/ \E update \in EventMessages : on_flow_process_city(update)
    \/ \E update \in EventCallbackQueries, api \in ApiOutcomes :
            on_flow_process_sport_selection(update, api)
    \/ \E update \in EventMessages, api \in ApiOutcomes : on_events_create_event_start(update, api)
    \/ \E update \in EventMessages : on_process_event_title(update)
    \/ \E update \in EventMessages : on_process_event_date(update)
    \/ \E update \in EventMessages : on_process_event_location(update)
    \/ \E update \in EventCallbackQueries : on_process_event_sport_type(update)
    \/ \E update \in EventMessages : on_process_event_max_participants(update)
    \/ \E update \in EventMessages : on_process_event_fee(update)
    \/ \E update \in EventMessages, api \in ApiOutcomes : on_process_event_note(update, api)

\* the polling thread: test the filters against the storage as it is now and
\* hand the first matching handler to a free worker
notify_command_handlers(update) ==
    /\ FreeWorkers # {}
    /\ last_update_id < MaxUpdates
    /\ first_match(update, storage) # "none"
    /\ last_update_id' = last_update_id + 1
    /\ tasks' = tasks \cup
         {Task(CHOOSE s \in FreeWorkers : \A x \in FreeWorkers : s <= x,
               first_match(update, storage), update, "queued", NoSession)}
    /\ UNCHANGED <<lifecycleVars, storage, profile, weights, broadcasts, event_rows, outbox,
                 handled, is_admin, sending>>

\* a worker starts the handler: it reads the session (bot.get_state,
\* bot.retrieve_data copy the stored values)
worker_read(t) ==
    /\ t \in tasks
    /\ t.phase = "queued"
    /\ tasks' = (tasks \ {t}) \cup {Task(t.slot, t.handler, t.update, "running", storage)}
    /\ UNCHANGED <<lifecycleVars, storage, profile, weights, broadcasts, event_rows, outbox,
                 handled, last_update_id, is_admin, sending>>

\* the worker completes the handler: the API calls and the writes to the
\* storage, computed from the copy it read
worker_finish(t, api, admin_user) ==
    /\ t \in tasks
    /\ admin_user = get_admin_or_error(profile, is_admin)
    /\ t.phase = "running"
    /\ \E table \in (IF t.handler = "process_broadcast_confirm" THEN UserTables ELSE {<<>>}) :
         \E failing \in SUBSET TelegramIds(table) :
            Effects(t.handler, t.update,
                    run_handler(t.handler, t.update, t.snapshot, api, admin_user, profile,
                                weights, table, failing))
    /\ tasks' = tasks \ {t}
    /\ UNCHANGED <<lifecycleVars, last_update_id, is_admin, sending>>

\* the inputs of a double submit: the steps of the weight logging flow and of
\* the registration flow, each of which may arrive twice
DoubleSubmitUpdates ==
    {Message(CMD_START), Message(CMD_REGISTER), Message(TXT_25), Message(TXT_0)}
    \cup {CallbackQuery(d) : d \in {CB_WEIGHTS_ADD, CB_WEIGHT_EX_NEW, CB_WEIGHT_DATE_TODAY,
                                     CB_GENDER_MALE, CB_SPORT_BEG, CB_SPORTS_DONE}}

NextBotConc ==
    \/ \E update \in DoubleSubmitUpdates : notify_command_handlers(update)
    \/ \E t \in tasks : worker_read(t)
    \/ \E t \in tasks, api \in ApiOutcomes, admin_user \in BOOLEAN : worker_finish(t, api, admin_user)

\* ----------------------------------------------------------- specifications
NoUpdate == [type |-> "none", text |-> <<>>, data |-> <<>>]

InitBot ==
    /\ storage = NoSession
    /\ profile = NoUser
    /\ weights = <<>>
    /\ broadcasts = <<>>
    /\ event_rows = <<>>
    /\ outbox = NoOutbox
    /\ handled = [handler |-> "none", update |-> NoUpdate, reply |-> "", result |-> ""]
    /\ tasks = {}
    /\ last_update_id = 0
    /\ is_admin \in BOOLEAN
    /\ sending = NotSending

Init == InitLifecycle /\ InitBot

\* the user has no session yet and may or may not have a profile; nothing else is stored
InitEventCreation ==
    /\ InitLifecycle
    /\ storage = NoSession
    /\ profile \in {NoUser, UserFields(NULL, "", <<>>), UserFields(25, "male", TXT_TITLE)}
    /\ weights = <<>>
    /\ broadcasts = <<>>
    /\ event_rows = <<>>
    /\ outbox = NoOutbox
    /\ handled = [handler |-> "none", update |-> NoUpdate, reply |-> "", result |-> ""]
    /\ tasks = {}
    /\ last_update_id = 0
    /\ is_admin = FALSE
    /\ sending = NotSending

\* column users.is_admin of the actor is cleared in the database while one of
\* the actor's admin flows is open (no request of the backend writes the column)
revoke_admin ==
    /\ is_admin
    /\ tasks = {}
    /\ storage.present
    /\ storage.state \in {WAITING_BROADCAST_TEXT, WAITING_BROADCAST_CONFIRM,
                          WAITING_PERSONAL_SELECT, WAITING_PERSONAL_TEXT,
                          WAITING_PERSONAL_CONFIRM}
    /\ is_admin' = FALSE
    /\ UNCHANGED <<lifecycleVars, storage, profile, weights, broadcasts, event_rows, outbox,
                   handled, tasks, last_update_id, sending>>

\* the updates that start.py, admin.py and unknown.py handle, and the loss of the flag
NextAdminRevoked ==
    \/ \E update \in Messages, api \in ApiOutcomes : on_cmd_start(update, api)
    \/ \E update \in Messages, admin_user \in BOOLEAN : on_start_broadcast(update, admin_user)
    \/ \E update \in Messages, admin_user \in BOOLEAN : on_start_personal_message(update, admin_user)
    \/ \E update \in Messages : on_process_personal_text(update)
    \/ \E update \in Messages : on_process_broadcast_text(update)
    \/ \E update \in Messages : on_cmd_cancel(update)
    \/ \E update \in Messages : on_handle_unknown_message(update)
    \/ \E update \in CallbackQueries : on_process_personal_user_select(update)
    \/ \E update \in CallbackQueries, api \in ApiOutcomes, admin_user \in BOOLEAN : on_process_personal_confirm(update, api, admin_user)
    \/ \E update \in CallbackQueries, api \in ApiOutcomes, admin_user \in BOOLEAN : on_process_broadcast_confirm(update, api, admin_user)
    \/ revoke_admin

\* ------------------------------------------------- handlers/applications.py
CB_APPROVE == <<"a", "p", "p", "r", "o", "v", "e", "_">>
CB_REJECT == <<"r", "e", "j", "e", "c", "t", "_">>

\* cmd_applications: callback_data=f"approve_{app['id']}", f"reject_{app['id']}"
callback_data(prefix, id) ==
    prefix \o <<(<<"0", "1", "2", "3", "4", "5", "6", "7", "8", "9">>)[id + 1]>>

\* the button of a message the bot sent, pressed by user from_user; "reject_x"
\* is a payload without a number
ReviewCallbacks ==
    {[type |-> "callback_query", text |-> <<>>, data |-> d, from_user |-> u] :
        d \in {callback_data(prefix, id) : prefix \in {CB_APPROVE, CB_REJECT},
                                           id \in ApplicationIds}
               \cup {CB_REJECT \o <<"x">>},
        u \in Users}

\* approve_application / reject_application: int(call.data.replace(prefix, "")),
\* api_client.review_application, then the calls that fetch the event and the
\* applicant and the messages; every exception ends in the "error" answer.
\* Neither handler looks at call.from_user before the review.
review_handler(h, prefix, status, call, api) ==
    LET application_id == int(replace_prefix(call.data, prefix)) IN
    /\ tasks = {}
    /\ last_update_id < MaxReviewUpdates
    /\ last_update_id' = last_update_id + 1
    /\ IF ~application_id.ok \/ api = "error"
       THEN /\ handled' = Handled(h, call, Outcome(<<>>, "error", "failed"))
            /\ UNCHANGED lifecycleVars
       ELSE /\ review_application_request(application_id.value, status)
            /\ handled' = Handled(h, call,
                                  IF response'.status_code # 200 \/ api = "error_late"
                                  THEN Outcome(<<>>, "error", "failed")
                                  ELSE Outcome(<<>>, status, "ok"))
    /\ UNCHANGED <<storage, profile, weights, broadcasts, event_rows, outbox, tasks, is_admin,
                   sending>>

on_approve_application(call, api) ==
    /\ startswith(call.data, CB_APPROVE)
    /\ review_handler("approve_application", CB_APPROVE, "approved", call, api)

on_reject_application(call, api) ==
    /\ startswith(call.data, CB_REJECT)
    /\ review_handler("reject_application", CB_REJECT, "rejected", call, api)

NextReview ==
    \/ \E e \in Events, u \in Users : apply_to_event(e, u)
    \/ \E call \in ReviewCallbacks, api \in ApiOutcomes : on_approve_application(call, api)
    \/ \E call \in ReviewCallbacks, api \in ApiOutcomes : on_reject_application(call, api)

\* ------------------------------- _send_broadcast_async followed step by step
\* table users with 0, 1 or 2 full pages, one row more and one row less
PagedSizes == {n \in 0..(MaxPages * limit) : n % limit \in {0, 1, limit - 1}}

PagedTables == {[i \in 1..n |-> [telegram_id |-> i]] : n \in PagedSizes}

\* the chats where bot.send_message raises: none, the last of each full page, all
FailingChats(table) ==
    {{}, {t \in TelegramIds(table) : t % limit = 0}, TelegramIds(table)}

\* the steps ops of the running handler applied to storage and backend
Steps(from, ops) ==
    LET st == ApplyOps(from, ops) IN
    /\ Len(st.broadcasts) <= MaxBroadcasts
    /\ storage' = st.storage
    /\ profile' = st.profile
    /\ weights' = st.weights
    /\ broadcasts' = st.broadcasts
    /\ event_rows' = st.event_rows
    /\ outbox' = st.outbox

\* storage and backend while the handler is running
Running ==
    [World(storage, profile, weights, broadcasts, event_rows) EXCEPT !.outbox = outbox]

\* process_broadcast_confirm on "broadcast_send" and _send_broadcast_async up to
\* `while True`: the admin check, the text, create_broadcast
send_broadcast_start(update, api, table, failing) ==
    LET text == Get(retrieve_data(storage), "broadcast_text", <<>>)
        refused == ~get_admin_or_error(profile, is_admin)
        out == IF refused THEN Outcome(<<>>, "", "refused")
               ELSE IF text = <<>> THEN Outcome(<<>>, "text_not_found", "aborted")
               ELSE IF api = "error" THEN Outcome(<<>>, "error", "finalize_failed")
               ELSE Outcome(<<create_broadcast(text)>>, "sending", "started")
    IN  /\ sending.pc = "idle"
        /\ tasks = {}
        /\ last_update_id < MaxUpdates
        /\ is_first_match("process_broadcast_confirm", update, storage)
        /\ update.data = CB_BROADCAST_SEND
        /\ last_update_id' = last_update_id + 1
        /\ Steps(World(storage, profile, weights, broadcasts, event_rows), out.ops)
        /\ handled' = Handled("process_broadcast_confirm", update, out)
        /\ sending' = IF out.result = "started"
                      THEN [NotSending EXCEPT !.pc = "fetch", !.table = table,
                                              !.failing = failing]
                      ELSE sending
        /\ UNCHANGED <<lifecycleVars, tasks, is_admin>>

\* the exception of an API call reaches safe_callback: the handler ends
send_broadcast_raise ==
    /\ sending' = [sending EXCEPT !.pc = "failed"]
    /\ handled' = [handled EXCEPT !.reply = "error", !.result = "finalize_failed"]
    /\ UNCHANGED <<lifecycleVars, storage, profile, weights, broadcasts, event_rows, outbox,
                   tasks, last_update_id, is_admin>>

\* `users = await api_client.get_admin_users(skip, limit)` and `if not users: break`
send_broadcast_get_admin_users(api) ==
    /\ sending.pc = "fetch"
    /\ IF api = "error" THEN send_broadcast_raise
       ELSE LET users == get_admin_users(sending.table, sending.skip) IN
            /\ sending' = IF users = <<>> THEN [sending EXCEPT !.pc = "complete"]
                          ELSE [sending EXCEPT !.pc = "send", !.users = users, !.next = 1]
            /\ Steps(Running, IF users = <<>> THEN <<>> ELSE <<get_admin_users_page(users)>>)
            /\ UNCHANGED <<lifecycleVars, handled, tasks, last_update_id, is_admin>>

\* the body of `for user in users` for the next user of the page, and
\* `skip += limit` after the last one
send_broadcast_send ==
    /\ sending.pc = "send"
    /\ LET acc == send_to_user(sending.acc, sending.users[sending.next], sending.failing)
           last == sending.next = Len(sending.users)
       IN  /\ Steps(Running, acc.ops)
           /\ sending' = [sending EXCEPT !.acc = [acc EXCEPT !.ops = <<>>],
                                         !.next = @ + 1,
                                         !.pc = IF last THEN "fetch" ELSE "send",
                                         !.skip = IF last THEN @ + limit ELSE @]
    /\ UNCHANGED <<lifecycleVars, handled, tasks, last_update_id, is_admin>>

\* api_client.complete_broadcast, bot.delete_state and the closing message
send_broadcast_complete(api) ==
    /\ sending.pc = "complete"
    /\ IF api = "error" THEN send_broadcast_raise
       ELSE /\ Steps(Running,
                     <<complete_broadcast(sending.acc.total_count, sending.acc.success_count,
                                          sending.acc.fail_count),
                       delete_state,
                       send_statistics(sending.acc.total_count, sending.acc.success_count,
                                       sending.acc.fail_count)>>)
            /\ sending' = [sending EXCEPT !.pc = "done"]
            /\ handled' = [handled EXCEPT !.reply = "broadcast_done", !.result = "finalized"]
            /\ UNCHANGED <<lifecycleVars, tasks, last_update_id, is_admin>>

\* the steps of _send_broadcast_async after it started
send_broadcast_async ==
    \/ \E api \in {"ok", "error"} : send_broadcast_get_admin_users(api)
    \/ send_broadcast_send
    \/ \E api \in {"ok", "error"} : send_broadcast_complete(api)

NextBroadcastPages ==
    \/ \E table \in PagedTables, api \in {"ok", "error"} :
         \E failing \in FailingChats(table) :
            send_broadcast_start(CallbackQuery(CB_BROADCAST_SEND), api, table, failing)
    \/ \E api \in {"ok", "error"} : send_broadcast_get_admin_users(api)
    \/ send_broadcast_send
    \/ \E api \in {"ok", "error"} : send_broadcast_complete(api)

\* an admin who entered the text of a broadcast and sees its preview
InitBroadcastPages ==
    /\ InitLifecycle
    /\ storage = [present |-> TRUE, state |-> WAITING_BROADCAST_CONFIRM,
                  data |-> Put(EmptyData, "broadcast_text", TXT_TITLE)]
    /\ profile = UserFields(NULL, "", <<>>)
    /\ weights = <<>>
    /\ broadcasts = <<>>
    /\ event_rows = <<>>
    /\ outbox = NoOutbox
    /\ handled = [handler |-> "process_broadcast_text", update |-> Message(TXT_TITLE),
                  reply |-> "preview", result |-> "ok"]
    /\ tasks = {}
    /\ last_update_id = 2
    /\ is_admin = TRUE
    /\ sending = NotSending

SpecLifecycle == Init /\ [][NextLifecycle]_vars

SpecLifecycleConc == Init /\ [][NextLifecycleConc]_vars

SpecLifecycleFaults == Init /\ [][NextLifecycleFaults]_vars

SpecBot == Init /\ [][NextBot]_vars

SpecEventCreation == InitEventCreation /\ [][NextEventCreation]_vars

SpecBotConc == Init /\ [][NextBotConc]_vars

SpecReview == Init /\ [][NextReview]_vars

SpecAdminRevoked == Init /\ [][NextAdminRevoked]_vars

\* a handler that started runs on: the steps of _send_broadcast_async are taken
SpecBroadcastPages ==
    InitBroadcastPages /\ [][NextBroadcastPages]_vars /\ WF_vars(send_broadcast_async)

\* ------------------------------------------------------------------ claims

PendingOf(apps, e, u) == {i \in ApplicationsOf(apps, e, u) : apps[i].status = "pending"}

ActiveOf(apps, e, u) ==
    {i \in ApplicationsOf(apps, e, u) : apps[i].status \in {"pending", "approved"}}

\* C1: a review(approve) of a pending application leaves it approved with
\* exactly one participant row for its (event, user) pair, whether or not a
\* participant row existed before the call.
C1_ApproveGivesOneParticipant ==
    [][\A id \in DOMAIN applications :
         ( /\ applications[id].status = "pending"
           /\ response'.op = "review"
           /\ response'.application_id = id
           /\ response'.status = "approved" )
         => /\ response'.status_code = 200
            /\ applications'[id].status = "approved"
            /\ participants'[<<applications[id].event_id, applications[id].user_id>>] = 1]_vars

\* C1 witness: an approval found the participant row already there (the
\* organizer had added the user) and there is still exactly one row.
C1_Witness ==
    /\ response.op = "review"
    /\ response.status = "approved"
    /\ response.status_code = 200
    /\ response.detail = "update"
    /\ applications[response.application_id].status = "approved"
    /\ applications[response.application_id].reviewed_at = now - 1
    /\ participants[<<response.event_id, response.user_id>>] = 1

\* C2: while a pair has a pending application, a further apply for the pair is
\* refused as a duplicate and the application rows stay as they are.
C2_SecondApplyRefused ==
    [][\A e \in Events, u \in Users :
         ( /\ PendingOf(applications, e, u) # {}
           /\ response'.op = "apply"
           /\ response'.event_id = e
           /\ response'.user_id = u )
         => /\ response'.status_code = 400
            /\ response'.detail = "ValueError_exists"
            /\ applications' = applications
            /\ Cardinality(ApplicationsOf(applications', e, u)) = 1]_vars

\* C2 witness: an apply was refused as a duplicate while the pair's only
\* application is pending.
C2_Witness ==
    /\ response.op = "apply"
    /\ response.detail = "ValueError_exists"
    /\ Cardinality(PendingOf(applications, response.event_id, response.user_id)) = 1

\* C3: a review of an application that is already approved or rejected fails
\* with AlreadyReviewed and changes neither the application (status,
\* reviewed_at) nor the participants.
C3_ReviewedIsFinal ==
    [][\A id \in DOMAIN applications :
         ( /\ applications[id].status \in {"approved", "rejected"}
           /\ response'.op = "review"
           /\ response'.application_id = id
           /\ response'.status \in {"approved", "rejected"} )
         => /\ response'.status_code = 400
            /\ applications'[id] = applications[id]
            /\ participants' = participants]_vars

\* C8: at most one pending or approved application per (event, user) pair,
\* also when applies for the same pair interleave.
C8_OneActiveApplication ==
    \A p \in Pairs : Cardinality(ActiveOf(applications, p[1], p[2])) <= 1

\* C9: at most one participant row per (event, user) pair, under any
\* interleaving of add_participant and review(approve).
C9_OneParticipantRow ==
    \A p \in Pairs : participants[p] <= 1

\* C11: an apply by the creator of the event fails with the self-application
\* error and leaves the application rows as they are.
C11_CreatorCannotApply ==
    [][\A e \in Events :
         ( /\ response'.op = "apply"
           /\ response'.event_id = e
           /\ response'.user_id = creator_id[e] )
         => /\ response'.status_code = 400
            /\ response'.detail = "ValueError_creator"
            /\ applications' = applications]_vars

\* C11 witness: the creator's apply was refused while another user's
\* application for the event exists.
C11_Witness ==
    /\ response.op = "apply"
    /\ response.event_id \in Events
    /\ response.user_id = creator_id[response.event_id]
    /\ response.detail = "ValueError_creator"
    /\ Len(applications) >= 1
    /\ ApplicationsOf(applications, response.event_id, response.user_id) = {}

\* C12: an apply is refused as a duplicate only if the pair has a pending or
\* approved application; with only rejected ones a non-creator's apply succeeds.
C12_DuplicateOnlyIfActive ==
    [][\A e \in Events, u \in Users :
         ( /\ response'.op = "apply"
           /\ response'.event_id = e
           /\ response'.user_id = u
           /\ response'.detail = "ValueError_exists" )
         => ActiveOf(applications, e, u) # {}]_vars

\* C13: reviewed_at is set exactly on the applications that are not pending.
C13_ReviewedAtIffNotPending ==
    \A i \in DOMAIN applications :
        (applications[i].reviewed_at # NULL) <=> (applications[i].status # "pending")

\* C13 witness: a review rejected an application, which now carries the time
\* of that review.
C13_Witness ==
    /\ response.op = "review"
    /\ response.status_code = 200
    /\ applications[response.application_id].status = "rejected"
    /\ applications[response.application_id].reviewed_at = now - 1

\* C14: after a review(approve) step, completed or failed at its commit, the
\* application is approved and its pair has a participant row, or the
\* application and the participants are as before the step.
C14_ApproveIsAtomic ==
    [][\A id \in DOMAIN applications :
         ( /\ response'.op = "review"
           /\ response'.application_id = id
           /\ response'.status = "approved" )
         => \/ /\ applications'[id].status = "approved"
               /\ participants'[<<applications[id].event_id, applications[id].user_id>>] >= 1
            \/ /\ applications'[id] = applications[id]
               /\ participants' = participants]_vars

\* C14 witness: the commit of an approval that was to add the participant row
\* failed; the application is still pending and its pair has no participant.
C14_Witness ==
    /\ response.op = "review"
    /\ response.status = "approved"
    /\ response.status_code = 500
    /\ response.detail = "commit_error"
    /\ applications[response.application_id].status = "pending"
    /\ participants[<<response.event_id, response.user_id>>] = 0

\* the flow a state belongs to
FlowOf(state) ==
    IF state \in {WAITING_AGE, WAITING_GENDER, WAITING_CITY, WAITING_SPORTS} THEN "registration"
    ELSE IF state \in {WAITING_EXERCISE_CHOICE, WAITING_EXERCISE_INPUT, WAITING_DATE,
                       WAITING_WEIGHT} THEN "weights"
    ELSE IF state \in {WAITING_BROADCAST_TEXT, WAITING_BROADCAST_CONFIRM} THEN "broadcast"
    ELSE "personal"

\* the steps with a validator and texts their validator does not accept
Validators ==
    {[state |-> WAITING_AGE,
      invalid |-> {TXT_0, TXT_BLANK, TXT_DATE_PAST, TXT_DATE_FUTURE}],
     [state |-> WAITING_CITY, invalid |-> {TXT_0, TXT_BLANK}],
     [state |-> WAITING_EXERCISE_INPUT, invalid |-> {TXT_0, TXT_BLANK}],
     [state |-> WAITING_DATE, invalid |-> {TXT_25, TXT_0, TXT_BLANK, TXT_DATE_FUTURE}],
     [state |-> WAITING_WEIGHT, invalid |-> {TXT_0, TXT_BLANK, TXT_DATE_PAST, TXT_DATE_FUTURE}],
     [state |-> WAITING_BROADCAST_TEXT, invalid |-> {TXT_BLANK}],
     [state |-> WAITING_PERSONAL_TEXT, invalid |-> {TXT_BLANK}]}

Flows ==
    {[flow |-> "registration", trigger |-> Message(CMD_REGISTER),
      first |-> {WAITING_AGE}, fields |-> {"age", "gender", "city", "sports"}],
     [flow |-> "weights", trigger |-> CallbackQuery(CB_WEIGHTS_ADD),
      first |-> {WAITING_EXERCISE_CHOICE, WAITING_EXERCISE_INPUT},
      fields |-> {"user_id", "exercises", "exercise", "date"}],
     [flow |-> "broadcast", trigger |-> Message(BTN_BROADCAST),
      first |-> {WAITING_BROADCAST_TEXT}, fields |-> {"broadcast_text"}],
     [flow |-> "personal", trigger |-> Message(BTN_PERSONAL),
      first |-> {WAITING_PERSONAL_SELECT},
      fields |-> {"target_user_id", "target_telegram_id", "personal_text"}]}

\* C7: the start trigger of flow B, sent while a session of another flow A is
\* active, is not consumed by A's step: the session is then at B's first step
\* and holds none of the fields A collected.
C7_FlowSwitchStartsFresh ==
    [][\A a \in Flows, b \in Flows :
         ( /\ a.flow # b.flow
           /\ storage.present
           /\ FlowOf(storage.state) = a.flow
           /\ handled'.update = b.trigger
           /\ handled'.result \notin {"refused", "raised"} )
         => /\ storage'.present
            /\ storage'.state \in b.first
            /\ DOMAIN storage'.data \cap a.fields = {}]_vars

C15_StartTriggerOpensFlow ==
    [][/\ \A b \in Flows :
            ( /\ ~storage.present
              /\ handled'.update = b.trigger
              /\ handled'.result \notin {"refused", "raised"} )
            => storage'.present /\ storage'.state \in b.first
       /\ ( /\ ~storage.present
            /\ profile.exists /\ profile.age # NULL /\ profile.city # <<>>
            /\ handled'.update = Message(BTN_CREATE_EVENT) )
          => storage'.present /\ storage'.state = WAITING_TITLE]_vars

\* C16: the create-event button of an actor whose profile lacks age or city
\* opens no Event Creation session and is not answered with the title prompt.
C16_NoEventFlowWithoutProfile ==
    [][( /\ handled'.update = Message(BTN_CREATE_EVENT)
         /\ (~profile.exists \/ profile.age = NULL \/ profile.city = <<>>) )
       => /\ ~(storage'.present /\ storage'.state = WAITING_TITLE)
          /\ handled'.reply # "enter_title"]_vars

\* C16 witness: a user known to the backend, without age and city, pressed the
\* create-event button; there is no session.
C16_Witness ==
    /\ handled.update = Message(BTN_CREATE_EVENT)
    /\ handled.handler = "start.create_event_start"
    /\ profile.exists
    /\ profile.age = NULL
    /\ ~storage.present

\* C17: a session at a step of the broadcast or personal message flow belongs
\* to an actor whose users row carries is_admin.
C17_AdminFlowsNeedAdmin ==
    ( /\ storage.present
      /\ storage.state \in {WAITING_BROADCAST_TEXT, WAITING_BROADCAST_CONFIRM,
                             WAITING_PERSONAL_SELECT, WAITING_PERSONAL_TEXT,
                             WAITING_PERSONAL_CONFIRM} )
    => is_admin /\ profile.exists

\* C17 witness: a known user without is_admin pressed the broadcast button
\* and no session was created.
C17_Witness ==
    /\ handled.handler = "start_broadcast"
    /\ handled.result = "refused"
    /\ profile.exists
    /\ ~is_admin
    /\ ~storage.present

SameAmount(stored, entered) ==
    IF entered = None THEN stored = None
    ELSE /\ stored # None
         /\ stored[1] * pow10(entered[1].scale) = entered[1].mantissa * 100

C20_BroadcastCountsEverySend ==
    [][(handled'.handler = "process_broadcast_confirm" /\ handled'.result = "finalized")
       => LET broadcast == broadcasts'[Len(broadcasts')]
              users == outbox'.users
              sends == outbox'.sends
              succeeded == {i \in 1..Len(sends) : sends[i].delivered}
              failed == {i \in 1..Len(sends) : ~sends[i].delivered}
          IN  /\ Len(broadcasts') = Len(broadcasts) + 1
              /\ Len(sends) = Len(users)
              /\ \A i \in 1..Len(users) : sends[i].chat_id = users[i].telegram_id
              /\ broadcast.completed
              /\ broadcast.total_count = Len(users)
              /\ broadcast.success_count = Cardinality(succeeded)
              /\ broadcast.fail_count = Cardinality(failed)
              /\ broadcast.total_count = broadcast.success_count + broadcast.fail_count
              /\ outbox'.report = Some([total_count |-> broadcast.total_count,
                                        success_count |-> broadcast.success_count,
                                        fail_count |-> broadcast.fail_count])]_vars

\* C20 witness: a broadcast to three recipients where the send to the second
\* failed was finalized with total 3, success 2, fail 1
C20_Witness ==
    /\ handled.handler = "process_broadcast_confirm"
    /\ handled.result = "finalized"
    /\ Len(outbox.users) = 3
    /\ Len(outbox.sends) = 3
    /\ ~outbox.sends[2].delivered
    /\ outbox.sends[3].delivered
    /\ broadcasts # <<>>
    /\ broadcasts[Len(broadcasts)].total_count = 3
    /\ broadcasts[Len(broadcasts)].success_count = 2
    /\ broadcasts[Len(broadcasts)].fail_count = 1

\* C21: add_participant for a pair that already has a participant row answers
\* "already a participant" (400) and leaves the participant rows and the
\* applications as they were, so a second call in sequence changes nothing and
\* no pair ever has two rows.
C21_AddParticipantIdempotent ==
    [][(/\ response'.op = "add_participant"
        /\ <<response'.event_id, response'.user_id>> \in Pairs
        /\ participants[<<response'.event_id, response'.user_id>>] >= 1)
       => /\ response'.status_code = 400
          /\ response'.detail = "already"
          /\ participants' = participants
          /\ applications' = applications
          /\ \A p \in Pairs : participants'[p] <= 1]_vars

\* C21 witness: a second add_participant for a pair with a row was answered 400
C21_Witness ==
    /\ response.op = "add_participant"
    /\ response.status_code = 400
    /\ response.detail = "already"
    /\ participants[<<response.event_id, response.user_id>>] = 1

\* C22: remove_participant leaves status and reviewed_at of every application
\* as they were; an approved application stays approved after its participant
\* row is removed.
C22_RemoveKeepsApplications ==
    [][response'.op = "remove_participant" => applications' = applications]_vars

\* C22 witness: the participant of an approved application was removed and the
\* application is still approved
C22_Witness ==
    /\ response.op = "remove_participant"
    /\ response.status_code = 204
    /\ participants[<<response.event_id, response.user_id>>] = 0
    /\ \E i \in DOMAIN applications :
         /\ applications[i].event_id = response.event_id
         /\ applications[i].user_id = response.user_id
         /\ applications[i].status = "approved"
         /\ applications[i].reviewed_at # NULL

\* C23: the Registration finalize never runs with an empty sports selection: a
\* "done" received while the selection is empty is rejected, leaves the session
\* at the sports step with its scratch as it was, and writes no profile.
C23_EmptyDoneRejected ==
    [][/\ (/\ handled'.handler = "process_sport_selection"
           /\ handled'.update = CallbackQuery(CB_SPORTS_DONE)
           /\ Get(storage.data, "sports", <<>>) = <<>>)
          => /\ handled'.result = "rejected"
             /\ storage' = storage
             /\ storage'.state = WAITING_SPORTS
             /\ profile' = profile
       /\ (handled'.handler = "process_sport_selection" /\ handled'.result = "finalized")
          => Get(storage.data, "sports", <<>>) # <<>>]_vars

\* C23 witness: "done" was rejected after a sport had been selected and
\* deselected again, and the session is still at the sports step
C23_Witness ==
    /\ handled.handler = "process_sport_selection"
    /\ handled.update = CallbackQuery(CB_SPORTS_DONE)
    /\ handled.result = "rejected"
    /\ storage.present
    /\ storage.state = WAITING_SPORTS
    /\ "sports" \in DOMAIN storage.data
    /\ storage.data["sports"] = <<>>

RegistrationSteps ==
    [start |-> "cmd_register",
     states |-> <<WAITING_AGE, WAITING_GENDER, WAITING_CITY, WAITING_SPORTS>>,
     handlers |-> <<"process_age", "process_gender", "process_city", "process_sport_selection">>]

EventCreationSteps ==
    [start |-> "events.create_event_start",
     states |-> <<WAITING_TITLE, WAITING_EVENT_DATE, WAITING_LOCATION, WAITING_SPORT_TYPE,
                  WAITING_MAX_PARTICIPANTS, WAITING_FEE, WAITING_NOTE>>,
     handlers |-> <<"process_event_title", "process_event_date", "process_event_location",
                    "process_event_sport_type", "process_event_max_participants",
                    "process_event_fee", "process_event_note">>]

\* this step changed the session's step to one of flow f
EntersStep(f) ==
    /\ storage'.present
    /\ \E i \in 1..Len(f.states) : storage'.state = f.states[i]
    /\ ~(storage.present /\ storage.state = storage'.state)

\* C25: in Registration and in Event Creation the session's step changes only
\* when one valid input moves it to the immediate successor (age, gender, city,
\* sports, finalize; title, date, location, sport, max_participants, fee, note,
\* finalize): no step is skipped, none is revisited unless the flow is started
\* again, and the finalize runs from the last step only.
C25_StepsInOrder ==
    [][\A f \in {RegistrationSteps, EventCreationSteps} :
         /\ EntersStep(f)
            => \/ /\ storage'.state = f.states[1]
                  /\ handled'.handler = f.start
                  /\ handled'.result = "started"
               \/ \E i \in 1..(Len(f.states) - 1) :
                     /\ storage.present
                     /\ storage.state = f.states[i]
                     /\ storage'.state = f.states[i + 1]
                     /\ handled'.handler = f.handlers[i]
                     /\ handled'.result = "ok"
         /\ (handled'.handler = f.handlers[Len(f.handlers)] /\ handled'.result = "finalized")
            => /\ storage.present
               /\ storage.state = f.states[Len(f.states)]
               /\ ~storage'.present]_vars

\* C25 witness: an event was created, so the Event Creation flow went through
\* all its steps from the title to the note
C25_Witness ==
    /\ handled.handler = "process_event_note"
    /\ handled.result = "finalized"
    /\ event_rows # <<>>
    /\ ~storage.present

\* C26: for every recipient table, tables of exactly one and exactly two full
\* pages of 100 rows included, a broadcast finalize that started comes to its
\* end; when it ends without an API call having raised, every recipient was
\* attempted exactly once in the order of the table, the counters count these
\* attempts, the broadcast record is completed and the session is cleared.
C26_BroadcastTerminates ==
    /\ (sending.pc = "fetch") ~> (sending.pc \in {"done", "failed"})
    /\ [](sending.pc = "done"
           => /\ Len(outbox.sends) = Len(sending.table)
              /\ \A i \in 1..Len(sending.table) :
                    outbox.sends[i].chat_id = sending.table[i].telegram_id
              /\ outbox.users = sending.table
              /\ sending.acc.total_count = Len(sending.table)
              /\ sending.acc.fail_count
                    = Cardinality({i \in 1..Len(outbox.sends) : ~outbox.sends[i].delivered})
              /\ sending.acc.success_count + sending.acc.fail_count = sending.acc.total_count
              /\ broadcasts # <<>>
              /\ broadcasts[Len(broadcasts)].completed
              /\ broadcasts[Len(broadcasts)].total_count = Len(sending.table)
              /\ broadcasts[Len(broadcasts)].fail_count = sending.acc.fail_count
              /\ ~storage.present)

\* C26 witness: a broadcast to exactly two full pages of recipients ended,
\* after a third request for a page returned no rows
C26_Witness ==
    /\ sending.pc = "done"
    /\ Len(sending.table) = 2 * limit
    /\ sending.skip = 2 * limit
    /\ Len(outbox.sends) = 2 * limit
    /\ broadcasts # <<>>
    /\ broadcasts[Len(broadcasts)].completed
    /\ ~storage.present

\* the step handled an approve or reject button
ReviewHandled ==
    /\ last_update_id' = last_update_id + 1
    /\ handled'.handler \in {"approve_application", "reject_application"}

CollectedBefore ==
    [s \in {WAITING_GENDER, WAITING_CITY, WAITING_SPORTS,
             WAITING_EVENT_DATE, WAITING_LOCATION, WAITING_SPORT_TYPE,
             WAITING_MAX_PARTICIPANTS, WAITING_FEE, WAITING_NOTE,
             WAITING_EXERCISE_CHOICE, WAITING_EXERCISE_INPUT, WAITING_DATE, WAITING_WEIGHT,
             WAITING_BROADCAST_CONFIRM, WAITING_PERSONAL_TEXT, WAITING_PERSONAL_CONFIRM} |->
        CASE s = WAITING_GENDER -> {"age"}
          [] s = WAITING_CITY -> {"age", "gender"}
          [] s = WAITING_SPORTS -> {"age", "gender", "city"}
          [] s = WAITING_EVENT_DATE -> {"title"}
          [] s = WAITING_LOCATION -> {"title", "date"}
          [] s = WAITING_SPORT_TYPE -> {"title", "date", "location"}
          [] s = WAITING_MAX_PARTICIPANTS -> {"title", "date", "location", "sport_type"}
          [] s = WAITING_FEE -> {"title", "date", "location", "sport_type", "max_participants"}
          [] s = WAITING_NOTE -> {"title", "date", "location", "sport_type", "max_participants",
                                  "fee"}
          [] s = WAITING_EXERCISE_CHOICE -> {"user_id"}
          [] s = WAITING_EXERCISE_INPUT -> {"user_id"}
          [] s = WAITING_DATE -> {"user_id", "exercise"}
          [] s = WAITING_WEIGHT -> {"user_id", "exercise", "date"}
          [] s = WAITING_BROADCAST_CONFIRM -> {"broadcast_text"}
          [] s = WAITING_PERSONAL_TEXT -> {"target_telegram_id"}
          [] s = WAITING_PERSONAL_CONFIRM -> {"target_telegram_id", "personal_text"}]

\* C29: a session at a non-first step of a flow holds a value for every field
\* the earlier steps of that flow collect, and no finalize finds a mandatory
\* field missing (title and date of an event, user_id, exercise and date of a
\* weight record, text and recipient of a personal message).
C29_ScratchComplete ==
    /\ (storage.present /\ storage.state \in DOMAIN CollectedBefore)
       => CollectedBefore[storage.state] \subseteq DOMAIN storage.data
    /\ handled.reply \notin {"not_saved", "data_not_found", "text_not_found"}

\* C29 witness: the admin's session is at the confirmation of a personal
\* message and holds the recipient and the text the two earlier steps collected
C29_Witness ==
    /\ storage.present
    /\ storage.state = WAITING_PERSONAL_CONFIRM
    /\ handled.handler = "process_personal_text"
    /\ {"target_telegram_id", "personal_text"} \subseteq DOMAIN storage.data
    /\ storage.data["personal_text"] # <<>>

\* C30: a send confirmation of a broadcast or of a personal message that
\* arrives when the actor's users row does not carry is_admin (the flag was
\* cleared after the flow started) is refused: no message is sent, no
\* broadcast record is created and the session stays as it is.
C30_NoSendWithoutAdminFlag ==
    [][(/\ last_update_id' = last_update_id + 1
        /\ handled'.handler \in {"process_broadcast_confirm", "process_personal_confirm"}
        /\ handled'.update.data \in {CB_BROADCAST_SEND, CB_PERSONAL_SEND}
        /\ ~is_admin)
       => /\ handled'.result = "refused"
          /\ outbox'.sends = <<>>
          /\ outbox'.report = None
          /\ broadcasts' = broadcasts
          /\ storage' = storage]_vars

\* C30 witness: the actor opened a broadcast as an admin, entered the text,
\* lost the flag, and the send confirmation was refused
C30_Witness ==
    /\ ~is_admin
    /\ handled.handler = "process_broadcast_confirm"
    /\ handled.update.data = CB_BROADCAST_SEND
    /\ handled.result = "refused"
    /\ storage.present
    /\ storage.state = WAITING_BROADCAST_CONFIRM
    /\ "broadcast_text" \in DOMAIN storage.data
    /\ broadcasts = <<>>
====
